---- MODULE Spec2Model ----
(***************************************************************************)
(* A model of the validator-mastermind core: the parser (parse.ts), the    *)
(* rule validator (validate.ts) and the DataStore state machine            *)
(* (data-store.ts).                                                        *)
(*                                                                         *)
(* Conventions.  A JavaScript string is a sequence of one-character        *)
(* strings, so that trim, length, Number() and the pattern tests are       *)
(* computed.  A CellValue is a record with a type tag t and one payload    *)
(* field per JavaScript type.  An object used as a dictionary (cells,      *)
(* errors, options.validationRules) is a function whose DOMAIN is the set  *)
(* of its own keys.  An object whose identity matters carries a field new: *)
(* TRUE iff the object was created by the running call (by the last call,  *)
(* once it has returned), so that an object of the state is the object     *)
(* that was there before the call iff its new is FALSE.                    *)
(*                                                                         *)
(* A JSON object is the sequence of its entries as written; OwnEntries     *)
(* gives them in the order of Object.keys, and Lookup reads a property     *)
(* through Object.prototype, of which the key "constructor" stands for the *)
(* inherited ones.                                                         *)
(*                                                                         *)
(* Left out: a column's label, metadata.importedAt and the Date.now()      *)
(* suffix of a row id (none is read by the store), the key __proto__, and  *)
(* subscribers that throw or call back into the store.                     *)
(***************************************************************************)
EXTENDS Integers, Sequences, FiniteSets, TLC

VARIABLES
    state,          \* DataStore.state: the current DataStoreState object
    subscribers,    \* DataStore.subscribers, in insertion order
    options,        \* DataStore.options
    rowIdCounter,   \* parse.ts: the module-level rowIdCounter
    pending,        \* loadFromFile calls suspended at `await file.text()`
    pc,             \* position inside the running synchronous call
    call,           \* the running call and its arguments; once it has returned,
                    \* the name of the last call
    seen,           \* per subscriber: the statuses it observed, one per
                    \* invocation, since the running call began
    thrown,         \* the exception the last call raised to its caller
    engine          \* how the JavaScript engine's `new Date(s)` reads a string
                    \* that is not in the ECMAScript date-time format

vars == <<state, subscribers, options, rowIdCounter, pending, pc, call, seen, thrown,
          engine>>

(***************************************************************************)
(* Dictionaries                                                            *)
(***************************************************************************)
EmptyMap == [k \in {} |-> 0]

Put(m, k, v) == [j \in (DOMAIN m) \cup {k} |-> IF j = k THEN v ELSE m[j]]

Del(m, k) == [j \in (DOMAIN m) \ {k} |-> m[j]]

(***************************************************************************)
(* Cell values (types.ts: CellValue = string | number | boolean | null)    *)
(***************************************************************************)
Null == [t |-> "null", n |-> 0, s |-> <<>>, b |-> FALSE]

Num(i) == [t |-> "number", n |-> i, s |-> <<>>, b |-> FALSE]

Str(cs) == [t |-> "string", n |-> 0, s |-> cs, b |-> FALSE]

Bool(x) == [t |-> "boolean", n |-> 0, s |-> <<>>, b |-> x]

(***************************************************************************)
(* Strings                                                                 *)
(***************************************************************************)
Digits == {"0", "1", "2", "3", "4", "5", "6", "7", "8", "9"}

HexDigits == Digits \cup {"a", "b", "c", "d", "e", "f", "A", "B", "C", "D", "E", "F"}

UpperCase == <<"A", "B", "C", "D", "E", "F", "G", "H", "I", "J", "K", "L", "M",
               "N", "O", "P", "Q", "R", "S", "T", "U", "V", "W", "X", "Y", "Z">>

LowerCase == <<"a", "b", "c", "d", "e", "f", "g", "h", "i", "j", "k", "l", "m",
               "n", "o", "p", "q", "r", "s", "t", "u", "v", "w", "x", "y", "z">>

\* String.prototype.toLowerCase, one character
ToLowerChar(c) ==
    IF \E i \in 1..26 : UpperCase[i] = c
    THEN LowerCase[CHOOSE i \in 1..26 : UpperCase[i] = c]
    ELSE c

ToLower(cs) == [i \in 1..Len(cs) |-> ToLowerChar(cs[i])]

RECURSIVE TrimLeft(_)
TrimLeft(cs) == IF cs # <<>> /\ Head(cs) = " " THEN TrimLeft(Tail(cs)) ELSE cs

RECURSIVE TrimRight(_)
TrimRight(cs) ==
    IF cs # <<>> /\ cs[Len(cs)] = " "
    THEN TrimRight(SubSeq(cs, 1, Len(cs) - 1))
    ELSE cs

\* String.prototype.trim
Trim(cs) == TrimRight(TrimLeft(cs))

AllIn(cs, S) == \A i \in 1..Len(cs) : cs[i] \in S

\* digits, with at most one "." among them, and at least one digit
IsDecimalDigits(cs) ==
    /\ \E i \in 1..Len(cs) : cs[i] \in Digits
    /\ AllIn(cs, Digits \cup {"."})
    /\ Cardinality({i \in 1..Len(cs) : cs[i] = "."}) <= 1

StripSign(cs) == IF cs # <<>> /\ Head(cs) \in {"+", "-"} THEN Tail(cs) ELSE cs

\* an unsigned decimal literal with an optional exponent part
IsUnsignedDecimal(cs) ==
    \/ IsDecimalDigits(cs)
    \/ \E k \in 2..(Len(cs) - 1) :
          /\ cs[k] \in {"e", "E"}
          /\ IsDecimalDigits(SubSeq(cs, 1, k - 1))
          /\ LET ex == StripSign(SubSeq(cs, k + 1, Len(cs)))
             IN  ex # <<>> /\ AllIn(ex, Digits)

IsRadixLiteral(cs) ==
    /\ Len(cs) >= 3
    /\ cs[1] = "0"
    /\ \/ cs[2] \in {"x", "X"} /\ AllIn(SubSeq(cs, 3, Len(cs)), HexDigits)
       \/ cs[2] \in {"o", "O"} /\ AllIn(SubSeq(cs, 3, Len(cs)), {"0", "1", "2", "3", "4", "5", "6", "7"})
       \/ cs[2] \in {"b", "B"} /\ AllIn(SubSeq(cs, 3, Len(cs)), {"0", "1"})

\* isNaN(Number(cs)): Number() trims, reads "" as 0, and accepts a
\* StringNumericLiteral (signed decimal, signed Infinity, unsigned radix)
NumberIsNaN(cs) ==
    LET tr == Trim(cs)
    IN  ~ \/ tr = <<>>
          \/ IsUnsignedDecimal(StripSign(tr))
          \/ StripSign(tr) = <<"I", "n", "f", "i", "n", "i", "t", "y">>
          \/ IsRadixLiteral(tr)

(***************************************************************************)
(* Dates: `new Date(s)` and the parser's isDateString                      *)
(***************************************************************************)
DigitSeq == <<"0", "1", "2", "3", "4", "5", "6", "7", "8", "9">>

DigitVal(c) == (CHOOSE i \in 1..10 : DigitSeq[i] = c) - 1

TwoDigits(cs, i) == 10 * DigitVal(cs[i]) + DigitVal(cs[i + 1])

IsDigitsAt(cs, i, n) == i + n - 1 <= Len(cs) /\ \A j \in i..(i + n - 1) : cs[j] \in Digits

\* /^\d{4}-\d{2}-\d{2}/ as a prefix
HasIsoDatePrefix(cs) ==
    /\ Len(cs) >= 10
    /\ IsDigitsAt(cs, 1, 4) /\ cs[5] = "-"
    /\ IsDigitsAt(cs, 6, 2) /\ cs[8] = "-"
    /\ IsDigitsAt(cs, 9, 2)

\* /^\d{4}-\d{2}-\d{2}$/
MatchesIsoDate(cs) == Len(cs) = 10 /\ HasIsoDatePrefix(cs)

\* /^\d{4}-\d{2}-\d{2}T\d{2}:\d{2}:\d{2}/ (not anchored at the end)
MatchesIsoDateTime(cs) ==
    /\ Len(cs) >= 19
    /\ HasIsoDatePrefix(cs)
    /\ cs[11] = "T"
    /\ IsDigitsAt(cs, 12, 2) /\ cs[14] = ":"
    /\ IsDigitsAt(cs, 15, 2) /\ cs[17] = ":"
    /\ IsDigitsAt(cs, 18, 2)

\* /^\d{2}\/\d{2}\/\d{4}$/
MatchesUsDate(cs) ==
    /\ Len(cs) = 10
    /\ IsDigitsAt(cs, 1, 2) /\ cs[3] = "/"
    /\ IsDigitsAt(cs, 4, 2) /\ cs[6] = "/"
    /\ IsDigitsAt(cs, 7, 4)

\* [+-]\d{2}:\d{2} starting at position i and ending the string
IsOffsetAt(cs, i) ==
    /\ i >= 1 /\ Len(cs) = i + 5
    /\ cs[i] \in {"+", "-"}
    /\ IsDigitsAt(cs, i + 1, 2) /\ cs[i + 3] = ":"
    /\ IsDigitsAt(cs, i + 4, 2)

\* value.replace(/(\d) ([+-]\d{2}:\d{2})$/, "$1$2")
NormalizeOffset(cs) ==
    LET sp == Len(cs) - 6
    IN  IF sp >= 2 /\ cs[sp] = " " /\ cs[sp - 1] \in Digits /\ IsOffsetAt(cs, sp + 1)
        THEN SubSeq(cs, 1, sp - 1) \o SubSeq(cs, sp + 1, Len(cs))
        ELSE cs

\* the engines: one reads the ECMAScript date-time string format and
\* MM/DD/YYYY only, the other also a date-time with a space before the offset
Engines == {"strict", "lenient"}

\* the ECMAScript date-time string format, and MM/DD/YYYY of the engines'
\* fallback formats; every other string is an Invalid Date
DateIsValidFormat(cs) ==
    \/ /\ MatchesIsoDate(cs)
       /\ TwoDigits(cs, 6) \in 1..12 /\ TwoDigits(cs, 9) \in 1..31
    \/ /\ MatchesIsoDateTime(cs)
       /\ TwoDigits(cs, 6) \in 1..12 /\ TwoDigits(cs, 9) \in 1..31
       /\ TwoDigits(cs, 12) \in 0..23 /\ TwoDigits(cs, 15) \in 0..59
       /\ TwoDigits(cs, 18) \in 0..59
       /\ \/ Len(cs) = 19
          \/ Len(cs) = 20 /\ cs[20] = "Z"
          \/ IsOffsetAt(cs, 20)
    \/ /\ MatchesUsDate(cs)
       /\ TwoDigits(cs, 1) \in 1..12 /\ TwoDigits(cs, 4) \in 1..31

\* !isNaN(new Date(cs).getTime()): what a string outside the date-time
\* string format yields is implementation-defined
DateIsValid(cs) ==
    \/ DateIsValidFormat(cs)
    \/ engine = "lenient" /\ DateIsValidFormat(NormalizeOffset(cs))

\* parse.ts isDateString
isDateString(cs) ==
    /\ MatchesIsoDate(cs) \/ MatchesIsoDateTime(cs) \/ MatchesUsDate(cs)
    /\ DateIsValid(NormalizeOffset(cs))

(***************************************************************************)
(* Regular expressions: `new RegExp(p)` and `regex.test(s)`, for patterns  *)
(* made of literal characters with an optional leading ^ and trailing $,   *)
(* and for patterns with an unterminated group, which do not compile.      *)
(***************************************************************************)
Count(cs, c) == Cardinality({i \in 1..Len(cs) : cs[i] = c})

\* new RegExp(p) throws a SyntaxError
RegExpThrows(p) == Count(p, "(") # Count(p, ")")

Contains(cs, lit) ==
    \E i \in 0..(Len(cs) - Len(lit)) : SubSeq(cs, i + 1, i + Len(lit)) = lit

RegExpTest(p, cs) ==
    LET atStart == p # <<>> /\ Head(p) = "^"
        p1 == IF atStart THEN Tail(p) ELSE p
        atEnd == p1 # <<>> /\ p1[Len(p1)] = "$"
        lit == IF atEnd THEN SubSeq(p1, 1, Len(p1) - 1) ELSE p1
    IN  CASE atStart /\ atEnd -> cs = lit
          [] atStart /\ ~atEnd -> Len(cs) >= Len(lit) /\ SubSeq(cs, 1, Len(lit)) = lit
          [] ~atStart /\ atEnd ->
                Len(cs) >= Len(lit) /\ SubSeq(cs, Len(cs) - Len(lit) + 1, Len(cs)) = lit
          [] OTHER -> Contains(cs, lit)

(***************************************************************************)
(* validate.ts                                                             *)
(***************************************************************************)
\* rule.message when the rule carries none
NoMessage == "(undefined)"

\* a ValidationRule; an absent operand is Null
Rule(type, value, message) == [type |-> type, value |-> value, message |-> message]

\* a message text with the operand it interpolates (0 when it has none)
Msg(text, arg) == [text |-> text, arg |-> arg]

\* rule.message ?? <default>
MessageOr(rule, default) ==
    IF rule.message # NoMessage THEN Msg(rule.message, 0) ELSE default

ValidationError(rule, message, column) ==
    [rule |-> rule, message |-> message, column |-> column]

\* validateType: the list of type errors (empty or one error)
validateType(value, type, columnKey) ==
    IF value.t = "null" THEN <<>>
    ELSE CASE type = "number" ->
                IF \/ value.t = "number"
                   \/ value.t = "string" /\ ~NumberIsNaN(value.s) /\ Trim(value.s) # <<>>
                THEN <<>>
                ELSE <<ValidationError("required", Msg("Expected a number value", 0), columnKey)>>
           [] type = "boolean" ->
                IF \/ value.t = "boolean"
                   \/ /\ value.t = "string"
                      /\ ToLower(value.s) \in
                            {<<"t", "r", "u", "e">>, <<"f", "a", "l", "s", "e">>,
                             <<"y", "e", "s">>, <<"n", "o">>, <<"1">>, <<"0">>}
                THEN <<>>
                ELSE <<ValidationError("required", Msg("Expected a boolean value", 0), columnKey)>>
           [] type = "date" ->
                IF value.t = "string" /\ DateIsValid(value.s)
                THEN <<>>
                ELSE <<ValidationError("required", Msg("Expected a valid date", 0), columnKey)>>
           [] OTHER -> <<>>

\* validateRule throws: only `new RegExp(rule.value)` can
RuleThrows(value, rule) ==
    /\ rule.type = "pattern"
    /\ value.t = "string" /\ rule.value.t = "string"
    /\ RegExpThrows(rule.value.s)

\* validateRule: the error of one rule, as a list (empty for null)
validateRule(value, rule, columnKey) ==
    CASE rule.type = "required" ->
            IF value.t = "null" \/ (value.t = "string" /\ value.s = <<>>)
            THEN <<ValidationError("required",
                        MessageOr(rule, Msg("This field is required", 0)), columnKey)>>
            ELSE <<>>
      [] rule.type = "min" ->
            IF value.t = "number" /\ rule.value.t = "number" /\ value.n < rule.value.n
            THEN <<ValidationError("min",
                        MessageOr(rule, Msg("Value must be at least", rule.value.n)), columnKey)>>
            ELSE <<>>
      [] rule.type = "max" ->
            IF value.t = "number" /\ rule.value.t = "number" /\ value.n > rule.value.n
            THEN <<ValidationError("max",
                        MessageOr(rule, Msg("Value must be at most", rule.value.n)), columnKey)>>
            ELSE <<>>
      [] rule.type = "pattern" ->
            IF /\ value.t = "string" /\ rule.value.t = "string"
               /\ ~RegExpTest(rule.value.s, value.s)
            THEN <<ValidationError("pattern",
                        MessageOr(rule, Msg("Value does not match required pattern", 0)), columnKey)>>
            ELSE <<>>
      [] rule.type = "min-length" ->
            IF value.t = "string" /\ rule.value.t = "number" /\ Len(value.s) < rule.value.n
            THEN <<ValidationError("min-length",
                        MessageOr(rule, Msg("Value must be at least (characters)", rule.value.n)), columnKey)>>
            ELSE <<>>
      [] rule.type = "max-length" ->
            IF value.t = "string" /\ rule.value.t = "number" /\ Len(value.s) > rule.value.n
            THEN <<ValidationError("max-length",
                        MessageOr(rule, Msg("Value must be at most (characters)", rule.value.n)), columnKey)>>
            ELSE <<>>
      [] OTHER -> <<>>

RECURSIVE RuleErrors(_, _, _)
RuleErrors(value, rules, columnKey) ==
    IF rules = <<>> THEN <<>>
    ELSE validateRule(value, Head(rules), columnKey)
            \o RuleErrors(value, Tail(rules), columnKey)

\* a Column; `validation` absent and `validation: []` are both <<>>
Column(key, type, validation) == [key |-> key, type |-> type, validation |-> validation]

CellThrows(value, column) ==
    \E i \in 1..Len(column.validation) : RuleThrows(value, column.validation[i])

\* a validateCell that stops at a type error
validateCellStoppingAtTypeError(value, column) ==
    IF validateType(value, column.type, column.key) # <<>>
    THEN validateType(value, column.type, column.key)
    ELSE RuleErrors(value, column.validation, column.key)

validateCell(value, column) ==
    validateType(value, column.type, column.key)
        \o RuleErrors(value, column.validation, column.key)

\* row.cells[key] ?? null
CellOrNull(cells, key) == IF key \in DOMAIN cells THEN cells[key] ELSE Null

RowThrows(row, columns) ==
    \E i \in 1..Len(columns) : CellThrows(CellOrNull(row.cells, columns[i].key), columns[i])

\* the column `errors[column.key] = ...` is last assigned from
LastColumn(columns, key) ==
    columns[CHOOSE i \in 1..Len(columns) :
                /\ columns[i].key = key
                /\ \A j \in (i + 1)..Len(columns) : columns[j].key # key]

validateRow(row, columns) ==
    LET keys == {columns[i].key : i \in 1..Len(columns)}
        errs(k) == validateCell(CellOrNull(row.cells, k), LastColumn(columns, k))
    IN  [k \in {k \in keys : errs(k) # <<>>} |-> errs(k)]

\* validateAllRows: new Row objects, cells and id untouched
validateAllRows(rows, columns) ==
    [i \in 1..Len(rows) |->
        [new |-> TRUE, id |-> rows[i].id, cells |-> rows[i].cells,
         errors |-> validateRow(rows[i], columns)]]

AllRowsThrow(rows, columns) == \E i \in 1..Len(rows) : RowThrows(rows[i], columns)

(***************************************************************************)
(* JSON documents.  A JSON value carries its type tag; an object holds its *)
(* members in the order of the text (e), no key twice, an array its items  *)
(* (e).  The text handed to parse is its byte length, whether it is blank  *)
(* or not JSON at all, and the value it denotes.  The object JSON.parse    *)
(* builds enumerates its own keys as OwnEntries does and inherits the      *)
(* properties of Object.prototype.                                         *)
(***************************************************************************)
JNull == [t |-> "null", n |-> 0, s |-> <<>>, b |-> FALSE, e |-> <<>>]

JUndefined == [t |-> "undefined", n |-> 0, s |-> <<>>, b |-> FALSE, e |-> <<>>]

JNum(i) == [t |-> "number", n |-> i, s |-> <<>>, b |-> FALSE, e |-> <<>>]

JStr(cs) == [t |-> "string", n |-> 0, s |-> cs, b |-> FALSE, e |-> <<>>]

JBool(x) == [t |-> "boolean", n |-> 0, s |-> <<>>, b |-> x, e |-> <<>>]

JObj(entries) == [t |-> "object", n |-> 0, s |-> <<>>, b |-> FALSE, e |-> entries]

JArr(items) == [t |-> "array", n |-> 0, s |-> <<>>, b |-> FALSE, e |-> items]

Entry(k, v) == [k |-> k, v |-> v]

\* kind: "blank" (empty or whitespace only), "malformed", "json"
Text(bytes, kind, value) == [bytes |-> bytes, kind |-> kind, value |-> value]

\* a function object, such as Object.prototype.constructor
JFunction == [t |-> "function", n |-> 0, s |-> <<>>, b |-> FALSE, e |-> <<>>]

\* the keys of the model that are array indices, with their values
IndexKeys == {"1", "2"}

IndexOf(k) == IF k = "1" THEN 1 ELSE 2

\* the keys of the model that Object.prototype defines
ObjectPrototypeKeys == {"constructor"}

HasOwn(entries, key) == \E i \in 1..Len(entries) : entries[i].k = key

\* the members whose keys are array indices, in ascending order
RECURSIVE IndexEntries(_)
IndexEntries(entries) ==
    LET idx == {i \in 1..Len(entries) : entries[i].k \in IndexKeys}
    IN  IF idx = {} THEN <<>>
        ELSE LET least == CHOOSE i \in idx :
                              \A j \in idx : IndexOf(entries[i].k) <= IndexOf(entries[j].k)
             IN  <<entries[least]>>
                    \o IndexEntries([j \in 1..(Len(entries) - 1) |->
                                        IF j < least THEN entries[j] ELSE entries[j + 1]])

\* Object.keys / Object.entries order: array-index keys ascending, then the
\* other keys in insertion order
OwnEntries(entries) ==
    IndexEntries(entries) \o SelectSeq(entries, LAMBDA m : m.k \notin IndexKeys)

\* obj[key]: the own property, else the one inherited from Object.prototype
Lookup(entries, key) ==
    IF HasOwn(entries, key)
    THEN entries[CHOOSE i \in 1..Len(entries) : entries[i].k = key].v
    ELSE IF key \in ObjectPrototypeKeys THEN JFunction
    ELSE JUndefined

\* the characters of a column key of the model
KeyChars(k) ==
    CASE k = "name" -> <<"n", "a", "m", "e">>
      [] k = "age" -> <<"a", "g", "e">>
      [] k = "a" -> <<"a">>
      [] k = "b" -> <<"b">>
      [] k = "c" -> <<"c">>
      [] k = "1" -> <<"1">>
      [] k = "2" -> <<"2">>
      [] k = "constructor" -> <<"c", "o", "n", "s", "t", "r", "u", "c", "t", "o", "r">>
      [] OTHER -> <<"?">>

RECURSIVE NatChars(_)
NatChars(n) ==
    IF n < 10 THEN <<DigitSeq[n + 1]>>
    ELSE NatChars(n \div 10) \o <<DigitSeq[(n % 10) + 1]>>

IntChars(n) == IF n < 0 THEN <<"-">> \o NatChars(-n) ELSE NatChars(n)

\* JSON.stringify of a value that passed validateNesting (no arrays)
RECURSIVE Stringify(_)
RECURSIVE StringifyEntries(_)
\* String(Object): what coerceValue stores for an inherited constructor
FunctionText ==
    <<"f", "u", "n", "c", "t", "i", "o", "n", " ", "O", "b", "j", "e", "c", "t", "(", ")",
      " ", "{", " ", "[", "n", "a", "t", "i", "v", "e", " ", "c", "o", "d", "e", "]", " ", "}">>

StringifyEntries(entries) ==
    IF entries = <<>> THEN <<>>
    ELSE <<"\"">> \o KeyChars(Head(entries).k) \o <<"\"", ":">>
            \o Stringify(Head(entries).v)
            \o (IF Len(entries) > 1 THEN <<",">> ELSE <<>>)
            \o StringifyEntries(Tail(entries))

Stringify(v) ==
    CASE v.t = "number" -> IntChars(v.n)
      [] v.t = "string" -> <<"\"">> \o v.s \o <<"\"">>
      [] v.t = "boolean" ->
            IF v.b THEN <<"t", "r", "u", "e">> ELSE <<"f", "a", "l", "s", "e">>
      [] v.t = "object" -> <<"{">> \o StringifyEntries(OwnEntries(v.e)) \o <<"}">>
      [] OTHER -> <<"n", "u", "l", "l">>

(***************************************************************************)
(* types.ts: the error classes.  An error is its code (DataValidatorError  *)
(* .code) and its message: a text with the record index, key and numbers   *)
(* it interpolates.                                                        *)
(***************************************************************************)
SdkError(code, text, index, key, num) ==
    [code |-> code, text |-> text, index |-> index, key |-> key, num |-> num]

NoError == SdkError("", "", -1, "", 0)

\* a ParseError whose code is its message
ParseErrorCodedByText(text, index, key, num) == SdkError(text, text, index, key, num)

ParseError(text, index, key, num) == SdkError("PARSE_ERROR", text, index, key, num)

\* the message names both sizes
FileSizeError(size, maxSize) ==
    [code |-> "FILE_SIZE_ERROR", text |-> "File size exceeds maximum allowed size",
     index |-> size, key |-> "", num |-> maxSize]

(***************************************************************************)
(* parse.ts                                                                *)
(***************************************************************************)
\* a validateNesting that allows one level more than maxDepth
RECURSIVE validateNestingOneDeeper(_, _, _, _)
validateNestingOneDeeper(entries, recordIndex, maxDepth, currentDepth) ==
    IF entries = <<>> THEN NoError
    ELSE LET key == Head(entries).k
             value == Head(entries).v
             here ==
                CASE value.t = "object" ->
                        IF currentDepth > maxDepth
                        THEN ParseError("Unsupported structure: deeply nested object",
                                        recordIndex, key, maxDepth)
                        ELSE validateNestingOneDeeper(OwnEntries(value.e), recordIndex,
                                                      maxDepth, currentDepth + 1)
                  [] value.t = "array" ->
                        ParseError("Unsupported structure: array value", recordIndex, key, 0)
                  [] OTHER -> NoError
         IN  IF here # NoError THEN here
             ELSE validateNestingOneDeeper(Tail(entries), recordIndex, maxDepth, currentDepth)

\* validateNesting over Object.entries(obj): the failure it throws
RECURSIVE validateNesting(_, _, _, _)
validateNesting(entries, recordIndex, maxDepth, currentDepth) ==
    IF entries = <<>> THEN NoError
    ELSE LET key == Head(entries).k
             value == Head(entries).v
             here ==
                CASE value.t = "object" ->
                        IF currentDepth >= maxDepth
                        THEN ParseError("Unsupported structure: deeply nested object",
                                        recordIndex, key, maxDepth)
                        ELSE validateNesting(OwnEntries(value.e), recordIndex, maxDepth,
                                             currentDepth + 1)
                  [] value.t = "array" ->
                        ParseError("Unsupported structure: array value", recordIndex, key, 0)
                  [] OTHER -> NoError
         IN  IF here # NoError THEN here
             ELSE validateNesting(Tail(entries), recordIndex, maxDepth, currentDepth)

\* a loop that checks the shape of every record before the fields of any
RECURSIVE RecordsErrorShapesFirst(_, _, _)
RecordsErrorShapesFirst(records, i, maxDepth) ==
    LET NotObjects == {j \in i..Len(records) : records[j].t # "object"}
        first == CHOOSE j \in NotObjects : \A k \in NotObjects : j <= k
    IN  IF NotObjects # {}
        THEN ParseError("Invalid record: expected a flat object", first - 1, "", 0)
        ELSE IF i > Len(records) THEN NoError
        ELSE LET here == validateNesting(OwnEntries(records[i].e), i - 1, maxDepth, 0)
             IN  IF here # NoError THEN here
                 ELSE RecordsErrorShapesFirst(records, i + 1, maxDepth)

\* the loop over the records: the first failure, record by record
RECURSIVE RecordsError(_, _, _)
RecordsError(records, i, maxDepth) ==
    IF i > Len(records) THEN NoError
    ELSE LET record == records[i]
             here == IF record.t # "object"
                     THEN ParseError("Invalid record: expected a flat object", i - 1, "", 0)
                     ELSE validateNesting(OwnEntries(record.e), i - 1, maxDepth, 0)
         IN  IF here # NoError THEN here ELSE RecordsError(records, i + 1, maxDepth)

detectValueType(value) ==
    CASE value.t = "boolean" -> "boolean"
      [] value.t = "number" -> "number"
      [] value.t = "string" -> IF isDateString(value.s) THEN "date" ELSE "string"
      [] OTHER -> "string"

\* the detected types of the non-null, present values at key, in record order
RECURSIVE DetectedTypes(_, _)
DetectedTypes(records, key) ==
    IF records = <<>> THEN <<>>
    ELSE LET value == Lookup(Head(records).e, key)
         IN  (IF value.t \in {"null", "undefined"} THEN <<>> ELSE <<detectValueType(value)>>)
                \o DetectedTypes(Tail(records), key)

\* the keys of typeCounts in insertion order: each type where it first occurs
RECURSIVE FirstSeen(_)
FirstSeen(types) ==
    IF types = <<>> THEN <<>>
    ELSE LET init == FirstSeen(SubSeq(types, 1, Len(types) - 1))
             last == types[Len(types)]
         IN  IF \E i \in 1..Len(init) : init[i] = last THEN init ELSE Append(init, last)

\* a scan in which an equal count wins too
RECURSIVE BestTypeLastWins(_, _, _, _)
BestTypeLastWins(order, types, bestType, bestCount) ==
    IF order = <<>> THEN bestType
    ELSE LET count == Count(types, Head(order))
         IN  IF count >= bestCount
             THEN BestTypeLastWins(Tail(order), types, Head(order), count)
             ELSE BestTypeLastWins(Tail(order), types, bestType, bestCount)

\* the scan of Object.entries(typeCounts): a strictly greater count wins
RECURSIVE BestType(_, _, _, _)
BestType(order, types, bestType, bestCount) ==
    IF order = <<>> THEN bestType
    ELSE LET count == Count(types, Head(order))
         IN  IF count > bestCount
             THEN BestType(Tail(order), types, Head(order), count)
             ELSE BestType(Tail(order), types, bestType, bestCount)

inferColumnType(records, key) ==
    LET types == DetectedTypes(records, key)
    IN  BestType(FirstSeen(types), types, "string", 0)

coerceValue(value) ==
    CASE value.t \in {"null", "undefined"} -> Null
      [] value.t = "string" -> Str(value.s)
      [] value.t = "number" -> Num(value.n)
      [] value.t = "boolean" -> Bool(value.b)
      [] value.t = "object" -> Str(Stringify(value))
      [] OTHER -> Str(FunctionText)

buildCells(record, columns) ==
    [k \in {columns[i].key : i \in 1..Len(columns)} |-> coerceValue(Lookup(record.e, k))]

\* a generateRowId that ignores its arguments
generateRowIdConstant(index, counter) == [index |-> 0, n |-> 1]

\* `row-${index}-${rowIdCounter}-${Date.now().toString(36)}`: the index and
\* the counter's value after its increment
generateRowId(index, counter) == [index |-> index, n |-> counter]

\* parse: the failure it throws (NoError when it returns)
ParseFailure(input, popts) ==
    CASE input.bytes > popts.maxFileSize -> FileSizeError(input.bytes, popts.maxFileSize)
      [] input.kind = "blank" -> ParseError("File is empty", -1, "", 0)
      [] input.kind = "malformed" ->
            ParseError("Invalid JSON: file could not be parsed", -1, "", 0)
      [] input.value.t # "array" ->
            ParseError("Unsupported structure: expected a JSON array of objects", -1, "", 0)
      [] input.value.e = <<>> ->
            ParseError("Empty dataset: the JSON array contains no records", -1, "", 0)
      [] RecordsError(input.value.e, 1, popts.maxNestingDepth) # NoError ->
            RecordsError(input.value.e, 1, popts.maxNestingDepth)
      [] input.value.e[1].e = <<>> ->
            ParseError("No columns found: the first record has no keys", -1, "", 0)
      [] OTHER -> NoError

\* parse: the DataSet it returns for an input that passes every check, with
\* rowIdCounter at `counter` when it is called
ParseDataSet(input, popts, counter) ==
    LET records == input.value.e
        columnKeys == [i \in 1..Len(records[1].e) |-> OwnEntries(records[1].e)[i].k]
        columns == [i \in 1..Len(columnKeys) |->
                        Column(columnKeys[i], inferColumnType(records, columnKeys[i]), <<>>)]
        rows == [i \in 1..Len(records) |->
                    [new |-> TRUE,
                     id |-> generateRowId(i - 1, counter + i),
                     cells |-> buildCells(records[i], columns),
                     errors |-> EmptyMap]]
    IN  [columns |-> columns,
         rows |-> rows,
         metadata |-> [fileName |-> popts.fileName,
                       rowCount |-> Len(rows),
                       columnCount |-> Len(columns)]]

(***************************************************************************)
(* data-store.ts: the state                                                *)
(***************************************************************************)
DefaultMaxFileSize == 5242880

DefaultMaxNestingDepth == 1

NoData ==
    [new |-> FALSE,
     columns |-> [new |-> FALSE, items |-> <<>>],
     rows |-> [new |-> FALSE, items |-> <<>>],
     metadata |-> [new |-> FALSE, fileName |-> "", rowCount |-> 0, columnCount |-> 0]]

\* a DataStoreState object
StateObj(new, status, data, error) ==
    [new |-> new, status |-> status, data |-> data, error |-> error]

\* a state object created by the running call
NewState(status, data, error) == StateObj(TRUE, status, data, error)

\* the objects a call finds when it begins: none of them is new
OldData(data) ==
    [new |-> FALSE,
     columns |-> [data.columns EXCEPT !.new = FALSE],
     rows |-> [new |-> FALSE,
               items |-> [i \in 1..Len(data.rows.items) |->
                             [data.rows.items[i] EXCEPT !.new = FALSE]]],
     metadata |-> [data.metadata EXCEPT !.new = FALSE]]

Old(st) == StateObj(FALSE, st.status, OldData(st.data), st.error)

(***************************************************************************)
(* data-store.ts: reads                                                    *)
(***************************************************************************)
\* getData() is null
getDataIsNull(st) == st.status # "loaded"

getData(st) == IF st.status = "loaded" THEN st.data ELSE NoData

getRows(st) == IF st.status = "loaded" THEN st.data.rows.items ELSE <<>>

getColumns(st) == IF st.status = "loaded" THEN st.data.columns.items ELSE <<>>

\* rows.findIndex(r => r.id === rowId), 1-based, 0 for -1
findRowIndex(rows, rowId) ==
    IF \E i \in 1..Len(rows) : rows[i].id = rowId
    THEN CHOOSE i \in 1..Len(rows) :
            rows[i].id = rowId /\ \A j \in 1..(i - 1) : rows[j].id # rowId
    ELSE 0

\* columns.find(c => c.key === columnKey), as a 1-based index, 0 for undefined
findColumnIndex(columns, columnKey) ==
    IF \E i \in 1..Len(columns) : columns[i].key = columnKey
    THEN CHOOSE i \in 1..Len(columns) :
            columns[i].key = columnKey /\ \A j \in 1..(i - 1) : columns[j].key # columnKey
    ELSE 0

RECURSIVE SumSeq(_)
SumSeq(ns) == IF ns = <<>> THEN 0 ELSE Head(ns) + SumSeq(Tail(ns))

\* a getErrorCount that counts the rows with errors
getErrorCountOfRows(st) ==
    IF st.status # "loaded" THEN 0
    ELSE Cardinality({i \in 1..Len(st.data.rows.items) :
                         DOMAIN st.data.rows.items[i].errors # {}})

getErrorCount(st) ==
    IF st.status # "loaded" THEN 0
    ELSE SumSeq([i \in 1..Len(st.data.rows.items) |->
                    Cardinality(DOMAIN st.data.rows.items[i].errors)])

getRowsWithErrors(st) ==
    IF st.status # "loaded" THEN <<>>
    ELSE SelectSeq(st.data.rows.items, LAMBDA row : Cardinality(DOMAIN row.errors) > 0)

exportData(st) == [i \in 1..Len(getRows(st)) |-> getRows(st)[i].cells]

(***************************************************************************)
(* data-store.ts: setState, notify, applyValidationRules                   *)
(***************************************************************************)
InSeq(x, sq) == \E i \in 1..Len(sq) : sq[i] = x

\* a notify that stops after the first subscriber
notifyFirstOnly(log, subs, status) ==
    [s \in DOMAIN log |->
        IF Len(subs) > 0 /\ s = subs[1] THEN Append(log[s], status) ELSE log[s]]

\* the subscribers that may throw when they are invoked: s3 throws whatever
\* state it reads, s4 throws when it reads a loaded state
Throwers == {"s3", "s4"}

ThrowsOn(sub, status) ==
    \/ sub = "s3"
    \/ sub = "s4" /\ status = "loaded"

\* notify throws: the loop of lines 295-297 catches nothing
NotifyThrows(subs, status) == \E i \in 1..Len(subs) : ThrowsOn(subs[i], status)

\* the subscribers the loop of notify invokes: all of them, or those up to
\* the first that throws
Invoked(subs, status) ==
    IF NotifyThrows(subs, status)
    THEN SubSeq(subs, 1, CHOOSE i \in 1..Len(subs) :
                            /\ ThrowsOn(subs[i], status)
                            /\ \A j \in 1..(i - 1) : ~ThrowsOn(subs[j], status))
    ELSE subs

\* how many times the loop of notify comes to the subscriber
Occurrences(sub, subs) == Len(SelectSeq(subs, LAMBDA x : x = sub))

\* notify: a subscriber reads getState().status each time the loop invokes it
notify(log, subs, status) ==
    [s \in DOMAIN log |->
        log[s] \o [i \in 1..Occurrences(s, Invoked(subs, status)) |-> status]]

\* a setState that notifies before it assigns: subscribers read the state
\* that is being replaced
setStateNotifyingFirst(newState, log) ==
    /\ state' = newState
    /\ seen' = notify(log, subscribers, state.status)

\* setState(newState), the notifications added to `log`
setState(newState, log) ==
    /\ state' = newState
    /\ seen' = notify(log, subscribers, newState.status)

\* what escapes from setState to the caller: the exception of a subscriber
Escaping(status) == IF NotifyThrows(subscribers, status) THEN "Error" ELSE ""

\* the message of the exception a subscriber throws
SubscriberMessage == "subscriber failed"

\* this.options.validationRules[key] is a property inherited from
\* Object.prototype: truthy, and not iterable when it is spread
RulesLookupThrows(validationRules, key) ==
    key \in ObjectPrototypeKeys /\ key \notin DOMAIN validationRules

\* applyValidationRules throws a TypeError
applyValidationRulesThrows(columns, validationRules) ==
    \E i \in 1..Len(columns) : RulesLookupThrows(validationRules, columns[i].key)

\* applyValidationRules: the rules stored for a column's key are appended to
\* the validation list the column already has
applyValidationRules(columns, validationRules) ==
    [i \in 1..Len(columns) |->
        IF columns[i].key \in DOMAIN validationRules
        THEN [columns[i] EXCEPT !.validation = @ \o validationRules[columns[i].key]]
        ELSE columns[i]]

(***************************************************************************)
(* The inputs the model draws from                                         *)
(***************************************************************************)
\* the store generates at most this many row ids
MaxRowIdCounter == 4

\* at most this many loadFromFile calls wait for their file at a time
MaxPending == 2

\* at most this many edits in one batchUpdateCells call
MaxBatch == 2

\* at most this many rules are stored in options.validationRules
MaxStoredRules == 2

Subs == {"s1", "s2"}

RMin0 == Rule("min", Num(0), NoMessage)

RRequired == Rule("required", Null, "custom")

RBadPattern == Rule("pattern", Str(<<"(">>), NoMessage)

\* options.validationRules given to the constructor
InitialRules == {EmptyMap, [k \in {"age"} |-> <<RMin0>>]}

\* addValidationRules arguments: a column key and a rule list
AddArgs == {<<"age", <<RBadPattern>>>>, <<"name", <<RRequired>>>>}

\* [{"name":"x","age":5},{"name":"","age":-1}]
TextOk ==
    Text(44, "json",
         JArr(<<JObj(<<Entry("name", JStr(<<"x">>)), Entry("age", JNum(5))>>),
                JObj(<<Entry("name", JStr(<<>>)), Entry("age", JNum(-1))>>)>>))

\* [{"age":"x"}]
TextOne == Text(13, "json", JArr(<<JObj(<<Entry("age", JStr(<<"x">>))>>)>>))

TextBlank == Text(2, "blank", JNull)

\* {}
TextNotArray == Text(2, "json", JObj(<<>>))

\* [{"a":[1]}], longer than maxFileSize allows
TextTooBig ==
    Text(DefaultMaxFileSize + 1, "json", JArr(<<JObj(<<Entry("a", JArr(<<JNum(1)>>))>>)>>))

Texts == {TextOk, TextOne, TextBlank, TextNotArray, TextTooBig}

\* {not json
TextMalformed ==
    Text(9, "malformed", JNull)

\* []
TextEmptyArray ==
    Text(2, "json", JArr(<<>>))

\* [{"a":1},5]
TextNotObject ==
    Text(11, "json", JArr(<<JObj(<<Entry("a", JNum(1))>>), JNum(5)>>))

\* [null]
TextNullRecord ==
    Text(6, "json", JArr(<<JNull>>))

\* [[1]]
TextArrayRecord ==
    Text(5, "json", JArr(<<JArr(<<JNum(1)>>)>>))

\* [{"a":[1]},5]
TextArrayThenNotObject ==
    Text(13, "json",
         JArr(<<JObj(<<Entry("a", JArr(<<JNum(1)>>))>>), JNum(5)>>))

\* [{"a":{"b":1}}]
TextNested ==
    Text(15, "json", JArr(<<JObj(<<Entry("a", JObj(<<Entry("b", JNum(1))>>))>>)>>))

\* [{"a":{"b":{"c":1}}}]
TextNestedTwice ==
    Text(21, "json",
         JArr(<<JObj(<<Entry("a", JObj(<<Entry("b", JObj(<<Entry("c", JNum(1))>>))>>))>>)>>))

\* [{"a":{"b":{"c":{"d":1}}}}]
TextNestedThrice ==
    Text(27, "json",
         JArr(<<JObj(<<Entry("a",
                   JObj(<<Entry("b",
                       JObj(<<Entry("c", JObj(<<Entry("d", JNum(1))>>))>>))>>))>>)>>))

\* [{"a":{"b":{"c":1}},"b":[1]}]
TextNestedThenArray ==
    Text(29, "json",
         JArr(<<JObj(<<Entry("a", JObj(<<Entry("b", JObj(<<Entry("c", JNum(1))>>))>>)),
                       Entry("b", JArr(<<JNum(1)>>))>>)>>))

\* [{"a":{"b":[1]}}]
TextArrayInNested ==
    Text(17, "json",
         JArr(<<JObj(<<Entry("a", JObj(<<Entry("b", JArr(<<JNum(1)>>))>>))>>)>>))

\* [{}]
TextNoKeys ==
    Text(4, "json", JArr(<<JObj(<<>>)>>))

\* [{},{"a":[1]}]
TextNoKeysThenArray ==
    Text(14, "json", JArr(<<JObj(<<>>), JObj(<<Entry("a", JArr(<<JNum(1)>>))>>)>>))

\* [{"a":1,"b":"x"},{"a":null,"c":true}]
TextOtherFields ==
    Text(37, "json",
         JArr(<<JObj(<<Entry("a", JNum(1)), Entry("b", JStr(<<"x">>))>>),
                JObj(<<Entry("a", JNull), Entry("c", JBool(TRUE))>>)>>))

\* [{"constructor":"x"},{}]
TextConstructor ==
    Text(24, "json",
         JArr(<<JObj(<<Entry("constructor", JStr(<<"x">>))>>), JObj(<<>>)>>))

\* [{"b":1,"2":2,"1":3}]
TextIndexKeys ==
    Text(21, "json",
         JArr(<<JObj(<<Entry("b", JNum(1)), Entry("2", JNum(2)), Entry("1", JNum(3))>>)>>))

\* [{"a":"x"},{"a":1},{"a":2},{"a":null}]
TextMostlyNumbers ==
    Text(38, "json",
         JArr(<<JObj(<<Entry("a", JStr(<<"x">>))>>), JObj(<<Entry("a", JNum(1))>>),
                JObj(<<Entry("a", JNum(2))>>), JObj(<<Entry("a", JNull)>>)>>))

\* [{"a":"x"},{"a":1},{"a":1},{"a":"y"}]
TextTie ==
    Text(37, "json",
         JArr(<<JObj(<<Entry("a", JStr(<<"x">>))>>), JObj(<<Entry("a", JNum(1))>>),
                JObj(<<Entry("a", JNum(1))>>), JObj(<<Entry("a", JStr(<<"y">>))>>)>>))

\* [{"a":true},{"a":1},{}]
TextTieOfTwo ==
    Text(23, "json",
         JArr(<<JObj(<<Entry("a", JBool(TRUE))>>), JObj(<<Entry("a", JNum(1))>>),
                JObj(<<>>)>>))

\* [{"a":null},{}]
TextNoValues ==
    Text(15, "json", JArr(<<JObj(<<Entry("a", JNull)>>), JObj(<<>>)>>))

\* [{"constructor":1},{},{}]
TextConstructorCounted ==
    Text(25, "json",
         JArr(<<JObj(<<Entry("constructor", JNum(1))>>), JObj(<<>>), JObj(<<>>)>>))

\* [{"d":"2025-01-01"},{"d":"x"},{"d":"01/02/2025"}]
TextDates ==
    Text(48, "json",
         JArr(<<JObj(<<Entry("d", JStr(<<"2", "0", "2", "5", "-", "0", "1", "-", "0", "1">>))>>),
                JObj(<<Entry("d", JStr(<<"x">>))>>),
                JObj(<<Entry("d", JStr(<<"0", "1", "/", "0", "2", "/", "2", "0", "2", "5">>))>>)>>))

\* the inputs of parse
ParseTexts ==
    Texts \cup {TextMalformed, TextEmptyArray, TextNotObject,
               TextNullRecord, TextArrayRecord, TextArrayThenNotObject,
               TextNested, TextNestedTwice, TextNestedThrice, TextNestedThenArray,
               TextArrayInNested, TextNoKeys, TextNoKeysThenArray,
               TextOtherFields, TextConstructor, TextIndexKeys,
               TextMostlyNumbers, TextTie, TextTieOfTwo, TextNoValues,
               TextConstructorCounted, TextDates}

\* the maxNestingDepth options of parse
Depths == {0, 1, 2}

\* the arguments of validateCell: cell values
DateText == <<"2", "0", "2", "5", "-", "0", "1", "-", "0", "1">>

\* 2025-01-01T10:00:00 -01:00
DateTimeSpaceOffsetText ==
    DateText \o <<"T", "1", "0", ":", "0", "0", ":", "0", "0", " ", "-", "0", "1", ":", "0", "0">>

CellValues ==
    {Null, Num(5), Num(-1), Bool(TRUE),
     Str(<<>>), Str(<<" ">>), Str(<<"x">>), Str(<<"5">>), Str(<<"-", "5">>),
     Str(<<"t", "r", "u", "e">>), Str(DateText), Str(DateTimeSpaceOffsetText)}

RMax3 == Rule("max", Num(3), NoMessage)

RPatternX == Rule("pattern", Str(<<"^", "x", "$">>), NoMessage)

RMinLength2 == Rule("min-length", Num(2), NoMessage)

\* column.validation
RuleLists ==
    {<<>>, <<RRequired>>, <<RMin0>>, <<RMax3>>, <<RMin0, RMax3>>,
     <<RPatternX, RRequired, RMinLength2>>, <<RMinLength2, RPatternX>>,
     <<RRequired, RBadPattern>>}

\* columns of every type
CellColumns ==
    {Column("c", type, rules) : type \in {"string", "number", "boolean", "date"},
                                rules \in RuleLists}

\* a File: its name, its size, and what file.text() does
File(name, size, read, text) == [name |-> name, size |-> size, read |-> read, text |-> text]

FileOk == File("ok.json", 13, "ok", TextOne)

FileUnreadable == File("gone.json", 44, "fail", TextBlank)

FileTooBig == File("big.json", DefaultMaxFileSize + 1, "ok", TextTooBig)

Files == {FileOk, FileUnreadable, FileTooBig}

\* a row id no load generates
MissingRowId == generateRowId(0, 0)

RowIds(st) == {getRows(st)[i].id : i \in 1..Len(getRows(st))}

\* updateCell arguments: values for the existing cells, and calls that name
\* a missing row or a missing column
EditValues == {Null, Str(<<"x">>)}

UpdateArgs ==
    {<<r, "age", v>> : r \in RowIds(state), v \in EditValues}
        \cup {<<MissingRowId, "age", Null>>, <<MissingRowId, "zzz", Null>>}
        \cup {<<r, "zzz", Null>> : r \in RowIds(state)}

CellEdit(rowId, columnKey, value) == [rowId |-> rowId, columnKey |-> columnKey, value |-> value]

\* the edits batches are made of
BatchEdits ==
    {CellEdit(getRows(state)[i].id, "age", v) : i \in 1..Len(getRows(state)) \cap {1},
                                                v \in EditValues}
        \cup {CellEdit(getRows(state)[i].id, "zzz", Null) : i \in 1..Len(getRows(state)) \cap {2}}
        \cup {CellEdit(MissingRowId, "age", Null)}

RECURSIVE SeqsUpTo(_, _)
SeqsUpTo(S, n) ==
    IF n = 0 THEN {<<>>}
    ELSE SeqsUpTo(S, n - 1)
            \cup {Append(sq, x) : sq \in {q \in SeqsUpTo(S, n - 1) : Len(q) = n - 1}, x \in S}

EditLists == SeqsUpTo(BatchEdits, MaxBatch)

(***************************************************************************)
(* The call in progress                                                    *)
(***************************************************************************)
NoSeen == [s \in Subs \cup Throwers |-> <<>>]

NoFile == File("", 0, "ok", TextBlank)

\* a DataSet as parse returns it; NoDataSet when parse throws
NoDataSet ==
    [columns |-> <<>>, rows |-> <<>>,
     metadata |-> [fileName |-> "", rowCount |-> 0, columnCount |-> 0]]

\* what a call of a function returned: the failure it threw, or its value
Returned(error, data) == [error |-> error, data |-> data]

\* a call frame: the arguments are kept while the call runs.  The frame of
\* a call of the function parse or validateCell also keeps its arguments and
\* what it returned, the frame of a call of subscribe whether the set held
\* the subscriber already
CallRec(op) ==
    [op |-> op, text |-> TextBlank, fileName |-> "", file |-> NoFile,
     maxNestingDepth |-> DefaultMaxNestingDepth, result |-> Returned(NoError, NoDataSet),
     value |-> Null, column |-> Column("", "string", <<>>), errors |-> <<>>,
     present |-> FALSE]

(***************************************************************************)
(* data-store.ts: loadFromString                                           *)
(***************************************************************************)
ParseOptions(fileName) ==
    [maxFileSize |-> options.maxFileSize,
     maxNestingDepth |-> options.maxNestingDepth,
     fileName |-> fileName]

\* the records parse generates row ids for
RecordCount(text) ==
    IF ParseFailure(text, ParseOptions("")) = NoError THEN Len(text.value.e) ELSE 0

\* a loadFromString whose catch lets the parsed, unvalidated rows through
loadOutcomeUnvalidated(text, fileName) ==
    LET failure == ParseFailure(text, ParseOptions(fileName))
        dataSet == ParseDataSet(text, ParseOptions(fileName), rowIdCounter)
    IN  IF failure # NoError
        THEN NewState("error", NoData, failure)
        ELSE NewState("loaded",
                      [new |-> TRUE,
                       columns |-> [new |-> TRUE, items |-> dataSet.columns],
                       rows |-> [new |-> TRUE, items |-> dataSet.rows],
                       metadata |-> [new |-> TRUE,
                                     fileName |-> dataSet.metadata.fileName,
                                     rowCount |-> dataSet.metadata.rowCount,
                                     columnCount |-> dataSet.metadata.columnCount]],
                      NoError)

\* the state object the try block of loadFromString ends with
loadOutcome(text, fileName) ==
    LET failure == ParseFailure(text, ParseOptions(fileName))
        dataSet == ParseDataSet(text, ParseOptions(fileName), rowIdCounter)
        columnsWithRules == applyValidationRules(dataSet.columns, options.validationRules)
    IN  IF failure # NoError
        THEN NewState("error", NoData, failure)
        ELSE IF applyValidationRulesThrows(dataSet.columns, options.validationRules)
        THEN NewState("error", NoData,
                      SdkError("UNKNOWN_ERROR", "rules is not iterable", -1, "", 0))
        ELSE IF AllRowsThrow(dataSet.rows, columnsWithRules)
        THEN NewState("error", NoData,
                      SdkError("UNKNOWN_ERROR", "Invalid regular expression", -1, "", 0))
        ELSE NewState("loaded",
                      [new |-> TRUE,
                       columns |-> [new |-> TRUE, items |-> columnsWithRules],
                       rows |-> [new |-> TRUE,
                                 items |-> validateAllRows(dataSet.rows, columnsWithRules)],
                       metadata |-> [new |-> TRUE,
                                     fileName |-> dataSet.metadata.fileName,
                                     rowCount |-> dataSet.metadata.rowCount,
                                     columnCount |-> dataSet.metadata.columnCount]],
                      NoError)

\* loadFromString, line 97: setState({ status: "loading" })
LoadFromString(text, fileName) ==
    /\ pc = "ready"
    /\ rowIdCounter + RecordCount(text) <= MaxRowIdCounter
    /\ setState(NewState("loading", NoData, NoError), NoSeen)
    /\ IF NotifyThrows(subscribers, "loading")
       THEN pc' = "ready" /\ call' = CallRec("loadFromString")
       ELSE /\ pc' = "loadFromString"
            /\ call' = [CallRec("loadFromString") EXCEPT !.text = text,
                                                         !.fileName = fileName]
    /\ thrown' = Escaping("loading")
    /\ UNCHANGED <<engine, subscribers, options, rowIdCounter, pending>>

\* loadFromString, lines 99-131: the try block and its catch, up to the
\* setState they reach.  What a subscriber throws at line 109 is caught at
\* line 117; what it throws in the catch block leaves loadFromString, to the
\* caller or into the catch block of loadFromFile
LoadFromStringFinish ==
    /\ pc = "loadFromString"
    /\ setState(loadOutcome(call.text, call.fileName), seen)
    /\ rowIdCounter' = rowIdCounter + RecordCount(call.text)
    /\ pc' = IF ~NotifyThrows(subscribers, loadOutcome(call.text, call.fileName).status)
             THEN "ready"
             ELSE IF loadOutcome(call.text, call.fileName).status = "loaded"
             THEN "loadFromStringCatch"
             ELSE IF call.op = "fileRead" THEN "loadFromFileCatch"
             ELSE "ready"
    /\ thrown' = IF /\ loadOutcome(call.text, call.fileName).status = "error"
                    /\ call.op # "fileRead"
                 THEN Escaping("error") ELSE ""
    /\ call' = CallRec(call.op)
    /\ UNCHANGED <<engine, subscribers, options, pending>>

\* loadFromString, lines 121-129: the catch block wraps what the subscriber
\* threw at line 109, and its setState notifies the subscribers again
LoadFromStringCatch ==
    /\ pc = "loadFromStringCatch"
    /\ setState(NewState("error", NoData,
                         SdkError("UNKNOWN_ERROR", SubscriberMessage, -1, "", 0)), seen)
    /\ pc' = IF NotifyThrows(subscribers, "error") /\ call.op = "fileRead"
             THEN "loadFromFileCatch"
             ELSE "ready"
    /\ thrown' = IF call.op # "fileRead" THEN Escaping("error") ELSE ""
    /\ call' = CallRec(call.op)
    /\ UNCHANGED <<engine, subscribers, options, rowIdCounter, pending>>

(***************************************************************************)
(* parse.ts: a call of parse(input, { maxNestingDepth })                   *)
(***************************************************************************)
Parse(text, maxNestingDepth) ==
    LET popts == [maxFileSize |-> DefaultMaxFileSize,
                  maxNestingDepth |-> maxNestingDepth,
                  fileName |-> "unknown"]
        failure == ParseFailure(text, popts)
        generated == IF failure = NoError THEN Len(text.value.e) ELSE 0
    IN  /\ pc = "ready"
        /\ rowIdCounter + generated <= MaxRowIdCounter
        /\ call' = [CallRec("parse") EXCEPT
                        !.text = text,
                        !.maxNestingDepth = maxNestingDepth,
                        !.result = IF failure = NoError
                                   THEN Returned(NoError,
                                                 ParseDataSet(text, popts, rowIdCounter))
                                   ELSE Returned(failure, NoDataSet)]
        /\ rowIdCounter' = rowIdCounter + generated
        /\ thrown' = IF failure = NoError THEN ""
                     ELSE IF failure.code = "FILE_SIZE_ERROR" THEN "FileSizeError"
                     ELSE "ParseError"
        /\ state' = Old(state)
        /\ seen' = NoSeen
        /\ UNCHANGED <<engine, subscribers, options, pending, pc>>

(***************************************************************************)
(* validate.ts: a call of validateCell(value, column)                      *)
(***************************************************************************)
ValidateCell(value, column) ==
    /\ pc = "ready"
    /\ call' = [CallRec("validateCell") EXCEPT
                    !.value = value,
                    !.column = column,
                    !.errors = IF CellThrows(value, column) THEN <<>>
                               ELSE validateCell(value, column)]
    /\ thrown' = IF CellThrows(value, column) THEN "SyntaxError" ELSE ""
    /\ state' = Old(state)
    /\ seen' = NoSeen
    /\ UNCHANGED <<engine, subscribers, options, rowIdCounter, pending, pc>>

(***************************************************************************)
(* data-store.ts: loadFromFile                                             *)
(***************************************************************************)
\* loadFromFile, line 135: setState({ status: "loading" })
LoadFromFile(file) ==
    /\ pc = "ready"
    /\ file \notin pending
    /\ file.size > options.maxFileSize \/ Cardinality(pending) < MaxPending
    /\ setState(NewState("loading", NoData, NoError), NoSeen)
    /\ IF NotifyThrows(subscribers, "loading")
       THEN pc' = "ready" /\ call' = CallRec("loadFromFile")
       ELSE pc' = "loadFromFile" /\ call' = [CallRec("loadFromFile") EXCEPT !.file = file]
    /\ thrown' = Escaping("loading")
    /\ UNCHANGED <<engine, subscribers, options, rowIdCounter, pending>>

\* a loadFromFile that starts reading the file before it checks the size
LoadFromFileCheckReadingFirst ==
    /\ pc = "loadFromFile"
    /\ pending' = pending \cup {call.file}
    /\ IF call.file.size > options.maxFileSize
       THEN setState(NewState("error", NoData,
                              FileSizeError(call.file.size, options.maxFileSize)), seen)
       ELSE UNCHANGED <<state, seen>>
    /\ pc' = "ready"
    /\ call' = CallRec(call.op)
    /\ UNCHANGED <<engine, subscribers, options, rowIdCounter, thrown>>

\* loadFromFile, lines 137-146: the size check, then the call suspends at
\* `await file.text()` and returns its promise
LoadFromFileCheck ==
    /\ pc = "loadFromFile"
    /\ IF call.file.size > options.maxFileSize
       THEN /\ setState(NewState("error", NoData,
                                 FileSizeError(call.file.size, options.maxFileSize)), seen)
            /\ thrown' = Escaping("error")
            /\ UNCHANGED pending
       ELSE /\ pending' = pending \cup {call.file}
            /\ UNCHANGED <<state, seen, thrown>>
    /\ pc' = "ready"
    /\ call' = CallRec(call.op)
    /\ UNCHANGED <<engine, subscribers, options, rowIdCounter>>

\* loadFromFile, lines 146-147: the read resolves and loadFromString is
\* called with the text; this step is its setState({ status: "loading" })
FileReadResolves(file) ==
    /\ pc = "ready"
    /\ file \in pending
    /\ file.read = "ok"
    /\ rowIdCounter + RecordCount(file.text) <= MaxRowIdCounter
    /\ pending' = pending \ {file}
    /\ setState(NewState("loading", NoData, NoError), NoSeen)
    /\ pc' = IF NotifyThrows(subscribers, "loading")
             THEN "loadFromFileCatch" ELSE "loadFromString"
    /\ call' = [CallRec("fileRead") EXCEPT !.text = file.text, !.fileName = file.name]
    /\ thrown' = ""
    /\ UNCHANGED <<engine, subscribers, options, rowIdCounter>>

\* loadFromFile, lines 148-156: the read rejects
FileReadRejects(file) ==
    /\ pc = "ready"
    /\ file \in pending
    /\ file.read = "fail"
    /\ pending' = pending \ {file}
    /\ setState(NewState("error", NoData,
                         SdkError("FILE_READ_ERROR", "Failed to read file", -1, "", 0)),
                NoSeen)
    /\ call' = CallRec("fileReadFailed")
    /\ thrown' = Escaping("error")
    /\ UNCHANGED <<engine, subscribers, options, rowIdCounter, pc>>

\* loadFromFile, lines 148-156: the catch block after a subscriber threw
\* inside loadFromString; what the subscriber throws now rejects the promise
LoadFromFileCatch ==
    /\ pc = "loadFromFileCatch"
    /\ setState(NewState("error", NoData,
                         SdkError("FILE_READ_ERROR", SubscriberMessage, -1, "", 0)), seen)
    /\ pc' = "ready"
    /\ call' = CallRec(call.op)
    /\ thrown' = Escaping("error")
    /\ UNCHANGED <<engine, subscribers, options, rowIdCounter, pending>>

(***************************************************************************)
(* data-store.ts: updateCell and batchUpdateCells                          *)
(***************************************************************************)
\* an edit that never removes the error entry of the edited column
editRowKeepingErrors(row, column, value) ==
    LET cellErrors == validateCell(value, column)
    IN  [new |-> TRUE,
         id |-> row.id,
         cells |-> Put(row.cells, column.key, value),
         errors |-> IF Len(cellErrors) > 0
                    THEN Put(row.errors, column.key, cellErrors)
                    ELSE row.errors]

\* lines 172-182 and 208-218: the edited row, a new object
editRow(row, column, value) ==
    LET cellErrors == validateCell(value, column)
    IN  [new |-> TRUE,
         id |-> row.id,
         cells |-> Put(row.cells, column.key, value),
         errors |-> IF Len(cellErrors) > 0
                    THEN Put(row.errors, column.key, cellErrors)
                    ELSE Del(row.errors, column.key)]

\* the early returns of updateCell
updateCellReturnsEarly(st, rowId, columnKey) ==
    \/ st.status # "loaded"
    \/ findRowIndex(st.data.rows.items, rowId) = 0
    \/ findColumnIndex(st.data.columns.items, columnKey) = 0

\* validateCell throws inside updateCell
updateCellThrows(st, rowId, columnKey, value) ==
    /\ ~updateCellReturnsEarly(st, rowId, columnKey)
    /\ CellThrows(value,
                  st.data.columns.items[findColumnIndex(st.data.columns.items, columnKey)])

\* the DataSet updateCell commits: { ...data, rows: newRows }
updateCellData(data, rowId, columnKey, value) ==
    LET rowIndex == findRowIndex(data.rows.items, rowId)
        column == data.columns.items[findColumnIndex(data.columns.items, columnKey)]
        newRow == editRow(data.rows.items[rowIndex], column, value)
    IN  [data EXCEPT !.new = TRUE,
                     !.rows = [new |-> TRUE,
                               items |-> [data.rows.items EXCEPT ![rowIndex] = newRow]]]

\* the state of the store after updateCell, called in state st
updateCellState(st, rowId, columnKey, value) ==
    IF updateCellReturnsEarly(st, rowId, columnKey)
          \/ updateCellThrows(st, rowId, columnKey, value)
    THEN st
    ELSE NewState("loaded", updateCellData(st.data, rowId, columnKey, value), NoError)

\* an updateCell call that tells the subscribers also when it returns early
UpdateCellNotifying(rowId, columnKey, value) ==
    /\ pc = "ready"
    /\ call' = CallRec("updateCell")
    /\ IF updateCellThrows(state, rowId, columnKey, value)
       THEN /\ state' = Old(state) /\ seen' = NoSeen /\ thrown' = "SyntaxError"
       ELSE /\ setState(updateCellState(Old(state), rowId, columnKey, value), NoSeen)
            /\ thrown' = Escaping(state'.status)
    /\ UNCHANGED <<engine, subscribers, options, rowIdCounter, pending, pc>>

UpdateCell(rowId, columnKey, value) ==
    /\ pc = "ready"
    /\ call' = CallRec("updateCell")
    /\ IF updateCellReturnsEarly(state, rowId, columnKey)
       THEN /\ state' = Old(state) /\ seen' = NoSeen /\ thrown' = ""
       ELSE IF updateCellThrows(state, rowId, columnKey, value)
       THEN /\ state' = Old(state) /\ seen' = NoSeen /\ thrown' = "SyntaxError"
       ELSE /\ setState(updateCellState(Old(state), rowId, columnKey, value), NoSeen)
            /\ thrown' = Escaping("loaded")
    /\ UNCHANGED <<engine, subscribers, options, rowIdCounter, pending, pc>>

\* rowIndexMap.get(rowId): the last index set for the id, 0 for undefined
rowIndexMapGet(rows, rowId) ==
    IF \E i \in 1..Len(rows) : rows[i].id = rowId
    THEN CHOOSE i \in 1..Len(rows) :
            rows[i].id = rowId /\ \A j \in (i + 1)..Len(rows) : rows[j].id # rowId
    ELSE 0

\* an edit of the batch that is not skipped
editApplies(data, edit) ==
    /\ rowIndexMapGet(data.rows.items, edit.rowId) # 0
    /\ findColumnIndex(data.columns.items, edit.columnKey) # 0

\* the loop of batchUpdateCells over the working copy newRows
RECURSIVE applyEdits(_, _, _)
applyEdits(data, newRows, edits) ==
    IF edits = <<>> THEN newRows
    ELSE LET edit == Head(edits)
             rowIndex == rowIndexMapGet(data.rows.items, edit.rowId)
             column == data.columns.items[findColumnIndex(data.columns.items, edit.columnKey)]
         IN  IF ~editApplies(data, edit)
             THEN applyEdits(data, newRows, Tail(edits))
             ELSE applyEdits(data,
                             [newRows EXCEPT ![rowIndex] = editRow(@, column, edit.value)],
                             Tail(edits))

batchUpdateCellsThrows(st, edits) ==
    /\ st.status = "loaded"
    /\ \E i \in 1..Len(edits) :
          /\ editApplies(st.data, edits[i])
          /\ CellThrows(edits[i].value,
                        st.data.columns.items[
                            findColumnIndex(st.data.columns.items, edits[i].columnKey)])

\* the DataSet batchUpdateCells commits: { ...data, rows: newRows }
batchUpdateCellsData(data, edits) ==
    [data EXCEPT !.new = TRUE,
                 !.rows = [new |-> TRUE,
                           items |-> applyEdits(data, data.rows.items, edits)]]

BatchUpdateCells(edits) ==
    /\ pc = "ready"
    /\ call' = CallRec("batchUpdateCells")
    /\ IF state.status # "loaded"
       THEN /\ state' = Old(state) /\ seen' = NoSeen /\ thrown' = ""
       ELSE IF batchUpdateCellsThrows(state, edits)
       THEN /\ state' = Old(state) /\ seen' = NoSeen /\ thrown' = "SyntaxError"
       ELSE /\ setState(NewState("loaded", batchUpdateCellsData(Old(state).data, edits),
                                 NoError), NoSeen)
            /\ thrown' = Escaping("loaded")
    /\ UNCHANGED <<engine, subscribers, options, rowIdCounter, pending, pc>>

(***************************************************************************)
(* data-store.ts: addValidationRules, reset, subscribe                     *)
(***************************************************************************)
\* lines 228-231: the stored rules after the call
addedRules(validationRules, columnKey, rules) ==
    Put(validationRules, columnKey,
        (IF columnKey \in DOMAIN validationRules THEN validationRules[columnKey] ELSE <<>>)
            \o rules)

\* lines 234-240 throw
addValidationRulesThrows(st, validationRules) ==
    /\ st.status = "loaded"
    /\ \/ applyValidationRulesThrows(st.data.columns.items, validationRules)
       \/ AllRowsThrow(st.data.rows.items,
                       applyValidationRules(st.data.columns.items, validationRules))

\* the DataSet addValidationRules commits, given the stored rules
addValidationRulesData(data, validationRules) ==
    LET columnsWithRules == applyValidationRules(data.columns.items, validationRules)
    IN  [data EXCEPT !.new = TRUE,
                     !.columns = [new |-> TRUE, items |-> columnsWithRules],
                     !.rows = [new |-> TRUE,
                               items |-> validateAllRows(data.rows.items, columnsWithRules)]]

\* the number of rules stored, over all keys
StoredRules(validationRules) ==
    LET keys == DOMAIN validationRules
        RECURSIVE Total(_)
        Total(K) == IF K = {} THEN 0
                    ELSE LET k == CHOOSE x \in K : TRUE
                         IN  Len(validationRules[k]) + Total(K \ {k})
    IN  Total(keys)

AddValidationRules(columnKey, rules) ==
    LET newRules == IF RulesLookupThrows(options.validationRules, columnKey)
                    THEN options.validationRules
                    ELSE addedRules(options.validationRules, columnKey, rules)
    IN  /\ pc = "ready"
        /\ StoredRules(newRules) <= MaxStoredRules
        /\ call' = CallRec("addValidationRules")
        /\ options' = [options EXCEPT !.validationRules = newRules]
        /\ IF RulesLookupThrows(options.validationRules, columnKey)
           THEN /\ state' = Old(state) /\ seen' = NoSeen /\ thrown' = "TypeError"
           ELSE IF state.status # "loaded"
           THEN /\ state' = Old(state) /\ seen' = NoSeen /\ thrown' = ""
           ELSE IF addValidationRulesThrows(state, newRules)
           THEN /\ state' = Old(state) /\ seen' = NoSeen /\ thrown' = "SyntaxError"
           ELSE /\ setState(NewState("loaded",
                                     addValidationRulesData(Old(state).data, newRules),
                                     NoError), NoSeen)
                /\ thrown' = Escaping("loaded")
        /\ UNCHANGED <<engine, subscribers, rowIdCounter, pending, pc>>

\* a reset that does nothing when the state is idle already
ResetUnlessIdle ==
    /\ pc = "ready"
    /\ call' = CallRec("reset")
    /\ IF state.status = "idle"
       THEN state' = Old(state) /\ seen' = NoSeen
       ELSE setState(NewState("idle", NoData, NoError), NoSeen)
    /\ thrown' = IF state.status = "idle" THEN "" ELSE Escaping("idle")
    /\ UNCHANGED <<engine, subscribers, options, rowIdCounter, pending, pc>>

\* a reset that forgets the rules added to the store
ResetForgettingRules ==
    /\ pc = "ready"
    /\ call' = CallRec("reset")
    /\ setState(NewState("idle", NoData, NoError), NoSeen)
    /\ thrown' = Escaping("idle")
    /\ options' = [options EXCEPT !.validationRules = EmptyMap]
    /\ UNCHANGED <<engine, subscribers, rowIdCounter, pending, pc>>

\* a reset that cancels the pending reads
ResetCancelling ==
    /\ pc = "ready"
    /\ call' = CallRec("reset")
    /\ setState(NewState("idle", NoData, NoError), NoSeen)
    /\ thrown' = Escaping("idle")
    /\ pending' = {}
    /\ UNCHANGED <<engine, subscribers, options, rowIdCounter, pc>>

Reset ==
    /\ pc = "ready"
    /\ call' = CallRec("reset")
    /\ setState(NewState("idle", NoData, NoError), NoSeen)
    /\ thrown' = Escaping("idle")
    /\ UNCHANGED <<engine, subscribers, options, rowIdCounter, pending, pc>>

\* getErrorCount(), lines 258-264, and getRowsWithErrors(), lines 266-271:
\* they return getErrorCount(state) and getRowsWithErrors(state)
GetErrorCount ==
    /\ pc = "ready"
    /\ call' = CallRec("getErrorCount")
    /\ state' = Old(state)
    /\ seen' = NoSeen
    /\ thrown' = ""
    /\ UNCHANGED <<engine, subscribers, options, rowIdCounter, pending, pc>>

GetRowsWithErrors ==
    /\ pc = "ready"
    /\ call' = CallRec("getRowsWithErrors")
    /\ state' = Old(state)
    /\ seen' = NoSeen
    /\ thrown' = ""
    /\ UNCHANGED <<engine, subscribers, options, rowIdCounter, pending, pc>>

\* a subscribe that keeps the subscribers in an array
SubscribeAppending(sub) ==
    /\ pc = "ready"
    /\ call' = [CallRec("subscribe") EXCEPT !.present = InSeq(sub, subscribers)]
    /\ subscribers' = Append(subscribers, sub)
    /\ state' = Old(state)
    /\ seen' = NoSeen
    /\ thrown' = ""
    /\ UNCHANGED <<engine, options, rowIdCounter, pending, pc>>

\* Set.prototype.add keeps the first insertion
Subscribe(sub) ==
    /\ pc = "ready"
    /\ call' = [CallRec("subscribe") EXCEPT !.present = InSeq(sub, subscribers)]
    /\ subscribers' = IF InSeq(sub, subscribers) THEN subscribers ELSE Append(subscribers, sub)
    /\ state' = Old(state)
    /\ seen' = NoSeen
    /\ thrown' = ""
    /\ UNCHANGED <<engine, options, rowIdCounter, pending, pc>>

\* an unsubscribe that clears the set
UnsubscribeEveryone(sub) ==
    /\ pc = "ready"
    /\ call' = CallRec("unsubscribe")
    /\ subscribers' = <<>>
    /\ state' = Old(state)
    /\ seen' = NoSeen
    /\ thrown' = ""
    /\ UNCHANGED <<engine, options, rowIdCounter, pending, pc>>

\* the function subscribe returned: Set.prototype.delete
Unsubscribe(sub) ==
    /\ pc = "ready"
    /\ call' = CallRec("unsubscribe")
    /\ subscribers' = SelectSeq(subscribers, LAMBDA x : x # sub)
    /\ state' = Old(state)
    /\ seen' = NoSeen
    /\ thrown' = ""
    /\ UNCHANGED <<engine, options, rowIdCounter, pending, pc>>

(***************************************************************************)
(* The store: a DataStore constructed with some validation rules           *)
(***************************************************************************)
Init ==
    /\ state = StateObj(FALSE, "idle", NoData, NoError)
    /\ subscribers = <<>>
    /\ \E rules \in InitialRules :
          options = [maxFileSize |-> DefaultMaxFileSize,
                     maxNestingDepth |-> DefaultMaxNestingDepth,
                     validationRules |-> rules]
    /\ rowIdCounter = 0
    /\ pending = {}
    /\ pc = "ready"
    /\ call = CallRec("new")
    /\ seen = NoSeen
    /\ thrown = ""
    /\ engine \in Engines

\* a store whose texts, files and edits hold no string of a date format: no
\* step depends on the engine
InitStore == Init /\ engine = "strict"

\* editing a loaded data set
Next ==
    \/ \E text \in {TextOk, TextBlank} : LoadFromString(text, "unknown")
    \/ LoadFromStringFinish
    \/ \E args \in UpdateArgs : UpdateCell(args[1], args[2], args[3])
    \/ \E edits \in EditLists : BatchUpdateCells(edits)
    \/ \E args \in AddArgs : AddValidationRules(args[1], args[2])
    \/ Reset
    \/ GetErrorCount
    \/ GetRowsWithErrors
    \/ Subscribe("s1")
    \/ Unsubscribe("s1")

Spec == InitStore /\ [][Next]_vars

\* loading from strings and files, with two subscribers
NextFiles ==
    \/ \E text \in Texts \ {TextOk} : LoadFromString(text, "unknown")
    \/ LoadFromStringFinish
    \/ \E file \in Files : LoadFromFile(file)
    \/ LoadFromFileCheck
    \/ \E file \in Files : FileReadResolves(file)
    \/ \E file \in Files : FileReadRejects(file)
    \/ \E args \in UpdateArgs : UpdateCell(args[1], args[2], args[3])
    \/ \E edits \in EditLists : BatchUpdateCells(edits)
    \/ AddValidationRules("age", <<RBadPattern>>)
    \/ Reset
    \/ \E sub \in Subs : Subscribe(sub)
    \/ \E sub \in Subs : Unsubscribe(sub)

SpecFiles == InitStore /\ [][NextFiles]_vars

\* loading from strings and files when a subscriber may throw
NextThrowing ==
    \/ \E text \in {TextOk, TextBlank} : LoadFromString(text, "unknown")
    \/ LoadFromStringFinish
    \/ LoadFromStringCatch
    \/ \E file \in Files : LoadFromFile(file)
    \/ LoadFromFileCheck
    \/ \E file \in Files : FileReadResolves(file)
    \/ \E file \in Files : FileReadRejects(file)
    \/ LoadFromFileCatch
    \/ Reset
    \/ \E sub \in {"s1"} \cup Throwers : Subscribe(sub)
    \/ \E sub \in {"s1"} \cup Throwers : Unsubscribe(sub)

SpecThrowing == InitStore /\ [][NextThrowing]_vars

\* calls of the function validateCell
NextValidate == \E value \in CellValues, column \in CellColumns : ValidateCell(value, column)

SpecValidate == Init /\ [][NextValidate]_vars

\* calls of the function parse
NextParse == \E text \in ParseTexts, maxNestingDepth \in Depths : Parse(text, maxNestingDepth)

SpecParse == Init /\ [][NextParse]_vars

(***************************************************************************)
(* Properties of the store                                                 *)
(***************************************************************************)
\* the subscribers in the set
Registered == {s \in Subs : InSeq(s, subscribers)}

ColumnKeys(st) == {getColumns(st)[i].key : i \in 1..Len(getColumns(st))}

\* the object `before` of the state a call began in, still there after it
SameObject(after, before) == ~after.new /\ after = [before EXCEPT !.new = FALSE]

\* C1: under every interleaving of the loads, the edits, addValidationRules
\* and reset, the state never changes from idle directly to loaded or
\* directly to error
C1_IdleNeverStraightToOutcome ==
    [][~(state.status = "idle" /\ state'.status \in {"loaded", "error"})]_vars

\* C2, as stated: a call of a mutating operation that replaced the state has
\* invoked each registered subscriber exactly once when it returns
C2_OncePerCall ==
    (/\ pc = "ready"
     /\ state.new
     /\ call.op \in {"loadFromString", "loadFromFile", "updateCell",
                     "batchUpdateCells", "addValidationRules", "reset"})
        => \A s \in Registered : Len(seen[s]) = 1

\* C2, amended: every replacement of the state invokes each registered
\* subscriber exactly once and nobody else.  So reset invokes it once per
\* call; updateCell, batchUpdateCells and addValidationRules once when they
\* commit a state and not at all when they commit none; loadFromString
\* twice, for loading and then for the outcome; loadFromFile once for
\* loading and once more when it rejects the file for its size, then twice
\* when the read resolves and once when it fails
C2_OncePerReplacement ==
    \A s \in Subs :
        seen[s] =
            IF s \notin Registered THEN <<>>
            ELSE CASE pc # "ready" -> <<"loading">>
                   [] call.op \in {"loadFromString", "fileRead"} ->
                        <<"loading", state.status>>
                   [] call.op = "loadFromFile" ->
                        IF state.status = "error" THEN <<"loading", "error">>
                        ELSE <<"loading">>
                   [] call.op = "fileReadFailed" -> <<"error">>
                   [] call.op = "reset" -> <<"idle">>
                   [] call.op \in {"updateCell", "batchUpdateCells", "addValidationRules"} ->
                        IF state.new THEN <<"loaded">> ELSE <<>>
                   [] OTHER -> <<>>

\* two subscribers have each been told of loading and of loaded by one
\* loadFromString call
C2_Witness ==
    /\ pc = "ready"
    /\ call.op = "loadFromString"
    /\ Registered = Subs
    /\ \A s \in Subs : seen[s] = <<"loading", "loaded">>

\* C3: a subscriber registered before loadFromString is called is invoked
\* while the status is loading, and that comes before its invocation for the
\* loaded or error outcome of the call
C3_LoadingSeenFirst ==
    /\ (pc = "loadFromString" /\ call.op = "loadFromString")
          => /\ state.status = "loading"
             /\ \A s \in Registered : seen[s] = <<"loading">>
    /\ (pc = "ready" /\ call.op = "loadFromString")
          => /\ state.status \in {"loaded", "error"}
             /\ \A s \in Registered :
                   /\ Len(seen[s]) = 2
                   /\ seen[s][1] = "loading"
                   /\ seen[s][2] = state.status

\* a registered subscriber after a loadFromString call that failed
C3_Witness ==
    /\ pc = "ready"
    /\ call.op = "loadFromString"
    /\ Registered # {}
    /\ state.status = "error"

\* C4: loadFromString never throws; a failure of parse ends in the error
\* state holding that failure, a failure of validation in the error state
\* holding an UNKNOWN_ERROR, and in the error state getData() is null and
\* getRows() and getColumns() are empty
C4_LoadFromStringNeverThrows ==
    [][pc = "loadFromString" =>
        LET failure == ParseFailure(call.text, ParseOptions(call.fileName))
            parsed == ParseDataSet(call.text, ParseOptions(call.fileName), rowIdCounter)
            validationThrows ==
                /\ failure = NoError
                /\ AllRowsThrow(parsed.rows,
                                applyValidationRules(parsed.columns, options.validationRules))
        IN  /\ pc' = "ready"
            /\ thrown' = ""
            /\ state'.status \in {"loaded", "error"}
            /\ failure # NoError =>
                  /\ state'.status = "error"
                  /\ state'.error = failure
                  /\ failure.code \in {"PARSE_ERROR", "FILE_SIZE_ERROR"}
            /\ validationThrows =>
                  /\ state'.status = "error"
                  /\ state'.error.code = "UNKNOWN_ERROR"
            /\ state'.status = "error" =>
                  /\ state'.error # NoError
                  /\ state'.data = NoData
                  /\ getDataIsNull(state')
                  /\ getRows(state') = <<>>
                  /\ getColumns(state') = <<>>]_vars

\* a loadFromString call ended in the error state with a wrapped failure,
\* after earlier loads had generated row ids
C4_Witness ==
    /\ pc = "ready"
    /\ call.op = "loadFromString"
    /\ thrown = ""
    /\ state.status = "error"
    /\ state.error.code = "UNKNOWN_ERROR"
    /\ rowIdCounter >= 2

\* C5: updateCell is a no-op when the state is not loaded, or no row has the
\* id, or no column has the key: the state object is the one from before the
\* call and no subscriber is invoked
C5_UpdateCellNoOp ==
    [][call'.op = "updateCell" =>
        \A args \in UpdateArgs :
            (/\ UpdateCell(args[1], args[2], args[3])
             /\ \/ state.status # "loaded"
                \/ args[1] \notin RowIds(state)
                \/ args[2] \notin ColumnKeys(state))
                => /\ ~state'.new
                   /\ state' = Old(state)
                   /\ \A s \in Subs : seen'[s] = <<>>]_vars

\* an updateCell call on a loaded store with a subscriber returned early
C5_Witness ==
    /\ call.op = "updateCell"
    /\ state.status = "loaded"
    /\ ~state.new
    /\ thrown = ""
    /\ Registered # {}

\* C6: after an updateCell on an existing row r and an existing column c of
\* a loaded store, the state, the DataSet, the rows array and row r are new
\* objects, every other row, the columns array and the metadata are the
\* objects from before, and within row r only the cell and the error entry
\* of c may differ
C6_UpdateCellFrame ==
    [][call'.op = "updateCell" =>
        \A args \in UpdateArgs :
            (/\ UpdateCell(args[1], args[2], args[3])
             /\ state.status = "loaded"
             /\ args[1] \in RowIds(state)
             /\ args[2] \in ColumnKeys(state))
                => /\ state'.new
                   /\ state'.status = "loaded"
                   /\ state'.data.new
                   /\ state'.data.rows.new
                   /\ SameObject(state'.data.columns, state.data.columns)
                   /\ SameObject(state'.data.metadata, state.data.metadata)
                   /\ Len(getRows(state')) = Len(getRows(state))
                   /\ \A i \in 1..Len(getRows(state)) :
                         LET before == getRows(state)[i]
                             after == getRows(state')[i]
                         IN  IF before.id # args[1]
                             THEN SameObject(after, before)
                             ELSE /\ after.new
                                  /\ after.id = before.id
                                  /\ \A k \in (DOMAIN before.cells \cup DOMAIN after.cells)
                                                \ {args[2]} :
                                        /\ k \in DOMAIN before.cells \cap DOMAIN after.cells
                                        /\ after.cells[k] = before.cells[k]
                                  /\ \A k \in (DOMAIN before.errors \cup DOMAIN after.errors)
                                                \ {args[2]} :
                                        /\ k \in DOMAIN before.errors \cap DOMAIN after.errors
                                        /\ after.errors[k] = before.errors[k]]_vars

\* C7: in every loaded state each row's errors are validateRow of the row's
\* cells and the current columns: a key is present exactly when validateCell
\* returns errors for its cell, its list is that result, no list is empty
C7_ErrorsAreValidateRow ==
    state.status = "loaded" =>
        \A i \in 1..Len(getRows(state)) :
            LET row == getRows(state)[i]
                columns == getColumns(state)
            IN  /\ ~RowThrows(row, columns)
                /\ row.errors = validateRow(row, columns)
                /\ \A k \in DOMAIN row.errors : row.errors[k] # <<>>
                /\ \A j \in 1..Len(columns) :
                      LET cellErrors ==
                              validateCell(CellOrNull(row.cells, columns[j].key), columns[j])
                      IN  IF cellErrors = <<>>
                          THEN columns[j].key \notin DOMAIN row.errors
                          ELSE /\ columns[j].key \in DOMAIN row.errors
                               /\ row.errors[columns[j].key] = cellErrors

\* an updateCell call has made one row without errors while another row
\* has some
C7_Witness ==
    /\ state.status = "loaded"
    /\ call.op = "updateCell"
    /\ \E i \in 1..Len(getRows(state)) :
          getRows(state)[i].new /\ DOMAIN getRows(state)[i].errors = {}
    /\ \E i \in 1..Len(getRows(state)) : DOMAIN getRows(state)[i].errors # {}

\* C8: after addValidationRules on a loaded store every column's validation
\* list is the stored rule list of the column's key, each rule once
C8_ValidationIsStoredRules ==
    (pc = "ready" /\ call.op = "addValidationRules" /\ state.status = "loaded") =>
        \A i \in 1..Len(getColumns(state)) :
            getColumns(state)[i].validation =
                IF getColumns(state)[i].key \in DOMAIN options.validationRules
                THEN options.validationRules[getColumns(state)[i].key]
                ELSE <<>>

\* C9: on a loaded store batchUpdateCells commits one new loaded state and
\* invokes each subscriber exactly once, for every edit list; the rows no
\* applied edit names stay the objects they were
C9_BatchCommitsOnce ==
    [][call'.op = "batchUpdateCells" =>
        \A edits \in EditLists :
            (BatchUpdateCells(edits) /\ state.status = "loaded")
                => /\ state'.new
                   /\ state'.status = "loaded"
                   /\ \A s \in Subs :
                         seen'[s] = IF s \in Registered THEN <<"loaded">> ELSE <<>>
                   /\ Len(getRows(state')) = Len(getRows(state))
                   /\ \A i \in 1..Len(getRows(state)) :
                         (~\E j \in 1..Len(edits) :
                               /\ edits[j].rowId = getRows(state)[i].id
                               /\ edits[j].columnKey \in ColumnKeys(state))
                            => SameObject(getRows(state')[i], getRows(state)[i])]_vars

\* updateCell called once per edit, in order, from state st; an exception
\* ends the sequence
RECURSIVE UpdateCellEach(_, _)
UpdateCellEach(st, edits) ==
    IF edits = <<>> THEN st
    ELSE LET edit == Head(edits)
         IN  IF updateCellThrows(st, edit.rowId, edit.columnKey, edit.value)
             THEN st
             ELSE UpdateCellEach(
                      updateCellState(st, edit.rowId, edit.columnKey, edit.value),
                      Tail(edits))

CellsAndErrors(rows) ==
    [i \in 1..Len(rows) |->
        [id |-> rows[i].id, cells |-> rows[i].cells, errors |-> rows[i].errors]]

\* C10: the cells and errors of every row after batchUpdateCells(edits) are
\* those after updateCell called once per edit, in order, on the same state
C10_BatchIsUpdateCellEach ==
    [][call'.op = "batchUpdateCells" =>
        \A edits \in EditLists :
            (BatchUpdateCells(edits) /\ state.status = "loaded")
                => CellsAndErrors(getRows(state'))
                      = CellsAndErrors(getRows(UpdateCellEach(state, edits)))]_vars

\* C11: updateCell, batchUpdateCells and addValidationRules on a loaded
\* store never throw because of re-validation, whatever the values and the
\* rules: batchUpdateCells and addValidationRules always commit a state, and
\* so does updateCell on an existing row and column
C11_RevalidationNeverThrows ==
    [][(/\ pc = "ready"
        /\ state.status = "loaded"
        /\ call'.op \in {"updateCell", "batchUpdateCells", "addValidationRules"})
          => /\ thrown' = ""
             /\ call'.op \in {"batchUpdateCells", "addValidationRules"}
                   => state'.new /\ state'.status = "loaded"
             /\ \A args \in UpdateArgs :
                   (/\ UpdateCell(args[1], args[2], args[3])
                    /\ args[1] \in RowIds(state)
                    /\ args[2] \in ColumnKeys(state))
                      => state'.new /\ state'.status = "loaded"]_vars

\* C12: validation never blocks data: a load that parses and whose cells
\* fail type or rule checks ends in loaded with the parsed values; an
\* updateCell on an existing row and column stores the given value, keeps
\* the state loaded, and exportData() returns the stored values, one mapping
\* per row in row order
C12_ValidationNeverBlocks ==
    [][/\ (/\ pc = "loadFromString"
           /\ ParseFailure(call.text, ParseOptions(call.fileName)) = NoError
           /\ ~AllRowsThrow(
                  ParseDataSet(call.text, ParseOptions(call.fileName), rowIdCounter).rows,
                  applyValidationRules(
                      ParseDataSet(call.text, ParseOptions(call.fileName),
                                   rowIdCounter).columns,
                      options.validationRules)))
             => /\ state'.status = "loaded"
                /\ exportData(state')
                      = [i \in 1..RecordCount(call.text) |->
                            ParseDataSet(call.text, ParseOptions(call.fileName),
                                         rowIdCounter).rows[i].cells]
       /\ call'.op = "updateCell" =>
             \A args \in UpdateArgs :
                 (/\ UpdateCell(args[1], args[2], args[3])
                  /\ state.status = "loaded"
                  /\ args[1] \in RowIds(state)
                  /\ args[2] \in ColumnKeys(state))
                    => /\ state'.status = "loaded"
                       /\ Len(exportData(state')) = Len(getRows(state))
                       /\ \A i \in 1..Len(getRows(state)) :
                             /\ getRows(state')[i].id = getRows(state)[i].id
                             /\ exportData(state')[i] = getRows(state')[i].cells
                             /\ getRows(state)[i].id = args[1]
                                   => exportData(state')[i][args[2]] = args[3]]_vars

\* the value record has for key in the text, JUndefined when it has none
Member(record, key) ==
    IF \E j \in 1..Len(record.e) : record.e[j].k = key
    THEN record.e[CHOOSE j \in 1..Len(record.e) : record.e[j].k = key].v
    ELSE JUndefined

\* C13: in every DataSet parse returns the columns are the first record's
\* keys in their original order, every row's cells have exactly the column
\* keys as their keys, a field the record lacks is stored as null and fields
\* outside the columns are dropped; in every loaded state every row's cells
\* have exactly the column keys
C13_CellsHaveTheColumnKeys ==
    /\ (call.op = "parse" /\ call.result.error = NoError) =>
          LET data == call.result.data
              records == call.text.value.e
              keys == {records[1].e[j].k : j \in 1..Len(records[1].e)}
          IN  /\ [j \in 1..Len(data.columns) |-> data.columns[j].key]
                    = [j \in 1..Len(records[1].e) |-> records[1].e[j].k]
              /\ Len(data.rows) = Len(records)
              /\ \A i \in 1..Len(data.rows) :
                    /\ DOMAIN data.rows[i].cells = keys
                    /\ \A k \in keys :
                          data.rows[i].cells[k]
                              = IF Member(records[i], k).t \in {"undefined", "null"}
                                THEN Null
                                ELSE coerceValue(Member(records[i], k))
    /\ state.status = "loaded" =>
          \A i \in 1..Len(getRows(state)) :
              DOMAIN getRows(state)[i].cells = ColumnKeys(state)

RowIdSeq(st) == [i \in 1..Len(getRows(st)) |-> getRows(st)[i].id]

\* C14: in every loaded state the row ids are pairwise distinct, and
\* updateCell, batchUpdateCells and addValidationRules leave the sequence of
\* row ids as it was
C14_RowIdsDistinctAndKept ==
    [][/\ state'.status = "loaded" =>
             \A i, j \in 1..Len(getRows(state')) :
                 i # j => getRows(state')[i].id # getRows(state')[j].id
       /\ (/\ state.status = "loaded"
           /\ pc = "ready"
           /\ call'.op \in {"updateCell", "batchUpdateCells", "addValidationRules"})
             => /\ state'.status = "loaded"
                /\ RowIdSeq(state') = RowIdSeq(state)]_vars

\* the second data set of a store, after a batch of edits
C14_Witness ==
    /\ state.status = "loaded"
    /\ state.new
    /\ call.op = "batchUpdateCells"
    /\ Len(getRows(state)) = 2
    /\ rowIdCounter = 4
    /\ \E i \in 1..2 : "age" \in DOMAIN getRows(state)[i].errors

\* the messages of the eight kinds of failure of the parser
ParseMessages ==
    {"File is empty",
     "Invalid JSON: file could not be parsed",
     "Unsupported structure: expected a JSON array of objects",
     "Empty dataset: the JSON array contains no records",
     "Invalid record: expected a flat object",
     "Unsupported structure: array value",
     "Unsupported structure: deeply nested object",
     "No columns found: the first record has no keys"}

\* the failure parse throws for text with the options of the last call
FailureOf(text) ==
    ParseFailure(text, [maxFileSize |-> DefaultMaxFileSize,
                        maxNestingDepth |-> call.maxNestingDepth,
                        fileName |-> "unknown"])

\* C15, as stated: two failures of the parser of different kinds (empty
\* input, malformed JSON, wrong top-level shape, empty dataset, invalid
\* record shape, nested array, nesting depth exceeded, no columns found)
\* carry different kind codes
C15_KindsHaveDistinctCodes ==
    (call.op = "parse" /\ call.result.error.text \in ParseMessages) =>
        \A text \in ParseTexts :
            (/\ FailureOf(text).text \in ParseMessages
             /\ FailureOf(text).text # call.result.error.text)
                => FailureOf(text).code # call.result.error.code

\* C15, amended: every failure of the parser carries a kind code and a
\* message; the code is FILE_SIZE_ERROR for the size limit and PARSE_ERROR
\* for each of the eight other kinds, which are told apart by their message
\* only: the message is a different one for each kind
C15_ParseFailuresShareOneCode ==
    (call.op = "parse" /\ call.result.error # NoError) =>
        LET error == call.result.error
            text == call.text
            is(message) == error.code = "PARSE_ERROR" /\ error.text = message
        IN  /\ error.code \in {"PARSE_ERROR", "FILE_SIZE_ERROR"}
            /\ error.code = "FILE_SIZE_ERROR" <=> text.bytes > DefaultMaxFileSize
            /\ error.code = "PARSE_ERROR" => error.text \in ParseMessages
            /\ text = TextBlank => is("File is empty")
            /\ text = TextMalformed => is("Invalid JSON: file could not be parsed")
            /\ text = TextNotArray
                  => is("Unsupported structure: expected a JSON array of objects")
            /\ text = TextEmptyArray
                  => is("Empty dataset: the JSON array contains no records")
            /\ text \in {TextNotObject, TextNullRecord, TextArrayRecord}
                  => is("Invalid record: expected a flat object")
            /\ text \in {TextArrayThenNotObject, TextNoKeysThenArray}
                  => is("Unsupported structure: array value")
            /\ text \in {TextNested, TextNestedTwice}
                  => is("Unsupported structure: deeply nested object")
            /\ text = TextNoKeys => is("No columns found: the first record has no keys")

\* parse has failed for a nested object beyond the depth limit
C15_Witness ==
    /\ call.op = "parse"
    /\ call.text = TextNestedTwice
    /\ call.result.error.code = "PARSE_ERROR"
    /\ call.result.error.text = "Unsupported structure: deeply nested object"
    /\ thrown = "ParseError"

\* C16: loadFromFile ends in error with the size-limit code when the size of
\* the file exceeds the maximum, and the content is then never read; when
\* the read fails the state becomes error with code FILE_READ_ERROR;
\* otherwise the outcome is the one of loadFromString with the text read and
\* the name of the file; no step of loadFromFile throws
C16_LoadFromFile ==
    [][/\ (pc = "loadFromFile" /\ call.file.size > options.maxFileSize)
            => /\ state'.status = "error"
               /\ state'.error.code = "FILE_SIZE_ERROR"
               /\ call.file \notin pending'
               /\ pc' = "ready"
               /\ thrown' = ""
       /\ (pc = "loadFromFile" /\ call.file.size <= options.maxFileSize)
            => /\ call.file \in pending'
               /\ state' = state
               /\ thrown' = ""
       /\ \A file \in Files :
            /\ FileReadRejects(file)
                 => /\ state'.status = "error"
                    /\ state'.error.code = "FILE_READ_ERROR"
                    /\ thrown' = ""
            /\ FileReadResolves(file)
                 => /\ state' = NewState("loading", NoData, NoError)
                    /\ seen' = notify(NoSeen, subscribers, "loading")
                    /\ pc' = "loadFromString"
                    /\ call'.text = file.text
                    /\ call'.fileName = file.name
                    /\ thrown' = ""
       /\ (pc = "loadFromString" /\ call.op = "fileRead")
            => /\ state' = loadOutcome(call.text, call.fileName)
               /\ state'.status = "loaded"
                     => state'.data.metadata.fileName = call.fileName
               /\ state'.status \in {"loaded", "error"}
               /\ thrown' = ""]_vars

\* a file has been read and its records are loaded under the file's name
C16_Witness ==
    /\ pc = "ready"
    /\ call.op = "fileRead"
    /\ state.status = "loaded"
    /\ state.data.metadata.fileName = FileOk.name
    /\ Len(getRows(state)) = 1
    /\ thrown = ""

\* the step replaces the state object
Replaced == state'.new /\ ~(pc = "loadFromFile" /\ state' = state)

\* C17: an unsubscribe removes exactly its registrant, and nothing when the
\* registrant is not registered any more; from then on that registrant is
\* not notified, and every other registrant is still notified once for
\* every replacement of the state
C17_UnsubscribeRemovesItsRegistrant ==
    [][/\ \A sub \in Subs :
            Unsubscribe(sub)
                => /\ subscribers' = SelectSeq(subscribers, LAMBDA x : x # sub)
                   /\ Registered' = Registered \ {sub}
                   /\ sub \notin Registered => subscribers' = subscribers
                   /\ state' = Old(state)
       /\ call'.op \notin {"subscribe", "unsubscribe"} => subscribers' = subscribers
       /\ \A s \in Subs :
            Len(seen'[s]) = (IF pc = "ready" THEN 0 ELSE Len(seen[s]))
                               + (IF Replaced /\ s \in Registered' THEN 1 ELSE 0)]_vars

\* after an unsubscribe the other registrant has been notified of the two
\* states of a load, and the one removed of none
C17_Witness ==
    /\ subscribers = <<"s2">>
    /\ pc = "ready"
    /\ call.op = "loadFromString"
    /\ seen["s2"] = <<"loading", state.status>>
    /\ seen["s1"] = <<>>

\* C18: reset called in a state idle, loading, loaded or error leaves the
\* state idle with getData() null, getRows() empty and getErrorCount() 0, and
\* it notifies every subscriber, also when the state was idle already
C18_ResetLeavesIdle ==
    [][(pc = "ready" /\ call'.op = "reset")
          => /\ state.status \in {"idle", "loading", "loaded", "error"}
             /\ state'.status = "idle"
             /\ state'.new
             /\ getDataIsNull(state')
             /\ getRows(state') = <<>>
             /\ getErrorCount(state') = 0
             /\ \A s \in Subs :
                   seen'[s] = IF s \in Registered THEN <<"idle">> ELSE <<>>
             /\ thrown' = ""
             /\ pc' = "ready"]_vars

\* reset has been called while the read of a file was pending, and a
\* subscriber was notified
C18_Witness ==
    /\ call.op = "reset"
    /\ state.status = "idle"
    /\ state.new
    /\ pending # {}
    /\ seen["s1"] = <<"idle">>

\* the cells of the data set that have at least one validation error
CellsWithErrors(st) ==
    {c \in (1..Len(getRows(st))) \X ColumnKeys(st) :
        /\ c[2] \in DOMAIN getRows(st)[c[1]].errors
        /\ Len(getRows(st)[c[1]].errors[c[2]]) > 0}

RECURSIVE HasArrayValue(_)
HasArrayValue(entries) ==
    \E i \in 1..Len(entries) :
        \/ entries[i].v.t = "array"
        \/ entries[i].v.t = "object" /\ HasArrayValue(entries[i].v.e)

\* some field holds an object at a depth the limit does not allow
RECURSIVE ExceedsDepth(_, _, _)
ExceedsDepth(entries, maxDepth, currentDepth) ==
    \E i \in 1..Len(entries) :
        /\ entries[i].v.t = "object"
        /\ \/ currentDepth >= maxDepth
           \/ ExceedsDepth(entries[i].v.e, maxDepth, currentDepth + 1)

\* the kind of a failure of parse: its message, "size" for the size limit,
\* "" for none
FailureKind(error) == IF error.code = "FILE_SIZE_ERROR" THEN "size" ELSE error.text

\* C20, as stated: parse fails with the failure of the first check the input
\* violates in the order size limit, empty text, JSON syntax, top-level
\* array, non-empty array, record shape, array-valued field, nesting depth,
\* first record has keys, also when different records violate different
\* checks
C20_FixedOrderOfChecks ==
    call.op = "parse" =>
        LET text == call.text
            records == text.value.e
            Objects == {i \in 1..Len(records) : records[i].t = "object"}
        IN  FailureKind(call.result.error) =
               CASE text.bytes > DefaultMaxFileSize -> "size"
                 [] text.kind = "blank" -> "File is empty"
                 [] text.kind = "malformed" -> "Invalid JSON: file could not be parsed"
                 [] text.value.t # "array" ->
                       "Unsupported structure: expected a JSON array of objects"
                 [] records = <<>> -> "Empty dataset: the JSON array contains no records"
                 [] Objects # 1..Len(records) -> "Invalid record: expected a flat object"
                 [] \E i \in Objects : HasArrayValue(records[i].e) ->
                       "Unsupported structure: array value"
                 [] \E i \in Objects : ExceedsDepth(records[i].e, call.maxNestingDepth, 0) ->
                       "Unsupported structure: deeply nested object"
                 [] records[1].e = <<>> -> "No columns found: the first record has no keys"
                 [] OTHER -> ""

\* the value of a field fails validateNesting at this depth
RECURSIVE Offends(_, _, _)
Offends(value, maxDepth, currentDepth) ==
    \/ value.t = "array"
    \/ /\ value.t = "object"
       /\ \/ currentDepth >= maxDepth
          \/ \E i \in 1..Len(value.e) : Offends(value.e[i].v, maxDepth, currentDepth + 1)

\* C20, amended: parse checks the size limit, empty text, the JSON syntax,
\* the top-level array and the non-empty array in this order; then it walks
\* the records once in array order and fails at the first record that is not
\* an object or that has an offending field, with the shape failure for a
\* record that is not an object and otherwise with the failure of the
\* record's first offending field in enumeration order, for which an object
\* beyond the depth limit is reported before any array; an earlier record's
\* array value or nesting failure so wins over a later element that is not
\* an object.  That the first record has keys is checked last
C20_FirstFailureOfTheWalk ==
    call.op = "parse" =>
        LET text == call.text
            records == text.value.e
            maxDepth == call.maxNestingDepth
            error == call.result.error
            Bad == {i \in 1..Len(records) :
                       \/ records[i].t # "object"
                       \/ \E j \in 1..Len(records[i].e) :
                             Offends(records[i].e[j].v, maxDepth, 0)}
            first == CHOOSE i \in Bad : \A k \in Bad : i <= k
            entries == OwnEntries(records[first].e)
            BadFields == {j \in 1..Len(entries) : Offends(entries[j].v, maxDepth, 0)}
            field == CHOOSE j \in BadFields : \A k \in BadFields : j <= k
        IN  CASE text.bytes > DefaultMaxFileSize -> FailureKind(error) = "size"
              [] text.kind = "blank" -> FailureKind(error) = "File is empty"
              [] text.kind = "malformed" ->
                    FailureKind(error) = "Invalid JSON: file could not be parsed"
              [] text.value.t # "array" ->
                    FailureKind(error) =
                        "Unsupported structure: expected a JSON array of objects"
              [] records = <<>> ->
                    FailureKind(error) = "Empty dataset: the JSON array contains no records"
              [] Bad # {} ->
                    /\ error.index = first - 1
                    /\ IF records[first].t # "object"
                       THEN FailureKind(error) = "Invalid record: expected a flat object"
                       ELSE IF entries[field].v.t = "array"
                       THEN /\ FailureKind(error) = "Unsupported structure: array value"
                            /\ error.key = entries[field].k
                       ELSE IF maxDepth = 0
                       THEN /\ FailureKind(error) =
                                   "Unsupported structure: deeply nested object"
                            /\ error.key = entries[field].k
                       ELSE FailureKind(error) \in
                               {"Unsupported structure: array value",
                                "Unsupported structure: deeply nested object"}
              [] records[1].e = <<>> ->
                    FailureKind(error) = "No columns found: the first record has no keys"
              [] OTHER -> error = NoError

\* parse has failed for the array value of the first record of an input
\* whose second element is not an object
C20_Witness ==
    /\ call.op = "parse"
    /\ call.text = TextArrayThenNotObject
    /\ call.result.error.text = "Unsupported structure: array value"
    /\ call.result.error.index = 0
    /\ call.result.error.key = "a"

\* the number of levels of plain objects nested in the fields: 0 when no
\* field holds an object
RECURSIVE ObjectLevels(_)
ObjectLevels(entries) ==
    LET Levels == {1 + ObjectLevels(entries[i].v.e) :
                      i \in {j \in 1..Len(entries) : entries[j].v.t = "object"}}
    IN  IF Levels = {} THEN 0 ELSE CHOOSE n \in Levels : \A m \in Levels : m <= n

\* C21: for an array of records without array values, parse with
\* maxNestingDepth = N fails with the depth-exceeded failure exactly when some
\* record holds plain objects nested more than N levels deep, and names the
\* first such record; so N = 1 accepts {a:{b:1}} and rejects {a:{b:{c:1}}},
\* and N = 0 rejects every object-valued field
C21_NestingDepthLimit ==
    (/\ call.op = "parse"
     /\ call.text.kind = "json"
     /\ call.text.value.t = "array"
     /\ call.text.value.e # <<>>
     /\ \A i \in 1..Len(call.text.value.e) :
           /\ call.text.value.e[i].t = "object"
           /\ ~HasArrayValue(call.text.value.e[i].e))
        => LET records == call.text.value.e
               N == call.maxNestingDepth
               error == call.result.error
               TooDeep == {i \in 1..Len(records) : ObjectLevels(records[i].e) > N}
           IN  /\ error.text = "Unsupported structure: deeply nested object"
                     <=> TooDeep # {}
               /\ TooDeep # {} =>
                     /\ error.index + 1 \in TooDeep
                     /\ \A i \in TooDeep : error.index + 1 <= i
                     /\ error.num = N
               /\ (call.text = TextNested /\ N = 1) => error = NoError
               /\ (call.text = TextNestedTwice /\ N = 1) => error # NoError
               /\ N = 0 => (error = NoError =>
                              \A i \in 1..Len(records) :
                                 \A j \in 1..Len(records[i].e) :
                                    records[i].e[j].v.t # "object")

\* parse with maxNestingDepth 2 has accepted objects nested two levels deep
C21_Witness ==
    /\ call.op = "parse"
    /\ call.text = TextNestedTwice
    /\ call.maxNestingDepth = 2
    /\ call.result.error = NoError
    /\ Len(call.result.data.rows) = 1

Classifications == {"boolean", "number", "date", "string"}

\* the classifications of the values the records hold at a key, in input
\* order, the null values and the records without the key left out
RECURSIVE ClassifiedValues(_, _)
ClassifiedValues(records, key) ==
    IF records = <<>> THEN <<>>
    ELSE (IF Member(Head(records), key).t \in {"null", "undefined"} THEN <<>>
          ELSE <<detectValueType(Member(Head(records), key))>>)
            \o ClassifiedValues(Tail(records), key)

\* the classifications that occur most often
Leading(types) ==
    {T \in Classifications :
        Count(types, T) > 0 /\ \A U \in Classifications : Count(types, U) <= Count(types, T)}

\* C22: for every column of a DataSet parse returns, the inferred type is
\* the classification with the strictly highest occurrence count among the
\* records' non-null, non-absent values at the key, and string when no record
\* has such a value: null and absent values never count
C22_TypeIsMostFrequentClassification ==
    (call.op = "parse" /\ call.result.error = NoError) =>
        \A j \in 1..Len(call.result.data.columns) :
            LET column == call.result.data.columns[j]
                types == ClassifiedValues(call.text.value.e, column.key)
            IN  /\ types = <<>> => column.type = "string"
                /\ \A T \in Classifications :
                      Leading(types) = {T} => column.type = T

\* the position in the scan at which classification T occurs for the n-th
\* time
ReachedAt(types, T, n) ==
    CHOOSE i \in 1..Len(types) :
        types[i] = T /\ Cardinality({h \in 1..i : types[h] = T}) = n

\* C23, as stated: when classifications tie for the highest occurrence
\* count, the inferred type is the tied classification that was first to
\* reach that count while the records are scanned in input order
C23_TieGoesToFirstToReachTheCount ==
    (call.op = "parse" /\ call.result.error = NoError) =>
        \A j \in 1..Len(call.result.data.columns) :
            LET column == call.result.data.columns[j]
                types == ClassifiedValues(call.text.value.e, column.key)
                lead == Count(types, CHOOSE T \in Leading(types) : TRUE)
            IN  Cardinality(Leading(types)) >= 2 =>
                    /\ column.type \in Leading(types)
                    /\ \A T \in Leading(types) :
                          ReachedAt(types, column.type, lead) <= ReachedAt(types, T, lead)

\* C23, amended: when classifications tie for the highest occurrence count,
\* the inferred type is the tied classification that occurs first in the
\* scan of the records in input order, whichever of them reaches the leading
\* count first
C23_TieGoesToFirstSeen ==
    (call.op = "parse" /\ call.result.error = NoError) =>
        \A j \in 1..Len(call.result.data.columns) :
            LET column == call.result.data.columns[j]
                types == ClassifiedValues(call.text.value.e, column.key)
            IN  Cardinality(Leading(types)) >= 2 =>
                    /\ column.type \in Leading(types)
                    /\ \A T \in Leading(types) :
                          ReachedAt(types, column.type, 1) <= ReachedAt(types, T, 1)

\* parse has inferred string for a column where string occurs first and
\* number is the first to occur twice
C23_Witness ==
    /\ call.op = "parse"
    /\ call.text = TextTie
    /\ call.result.error = NoError
    /\ call.result.data.columns[1].type = "string"
    /\ ClassifiedValues(call.text.value.e, "a") = <<"string", "number", "number", "string">>

\* the errors of a list that the rule at position i of the column made
ErrorsOfRule(value, column, i) == validateRule(value, column.validation[i], column.key)

TypeMessages == {"Expected a number value", "Expected a boolean value", "Expected a valid date"}

\* C24: when validateCell returns, the list is at most one type-conformance
\* error followed by at most one error per rule, in the declaration order of
\* the rules; there is no type error for null, while a required rule fails
\* on null and on the empty string; and a failed type check suppresses no
\* rule error
C24_TypeErrorThenRuleErrors ==
    (call.op = "validateCell" /\ thrown = "") =>
        LET value == call.value
            column == call.column
            errors == call.errors
            rules == column.validation
            IsTypeError(e) == e.rule = "required" /\ e.message.text \in TypeMessages
            typeErrors == SelectSeq(errors, IsTypeError)
            ruleErrors == SelectSeq(errors, LAMBDA e : ~IsTypeError(e))
            Failing == {i \in 1..Len(rules) : ErrorsOfRule(value, column, i) # <<>>}
        IN  /\ Len(typeErrors) <= 1
            /\ errors = typeErrors \o ruleErrors
            /\ value.t = "null" => typeErrors = <<>>
            /\ Len(ruleErrors) = Cardinality(Failing)
            /\ \A i \in Failing :
                  /\ Len(ErrorsOfRule(value, column, i)) = 1
                  /\ ruleErrors[Cardinality({h \in Failing : h <= i})]
                        = ErrorsOfRule(value, column, i)[1]
            /\ \A i \in 1..Len(rules) :
                  rules[i].type = "required"
                      => (i \in Failing <=> (value.t = "null" \/ value = Str(<<>>)))
            /\ \A e \in {errors[i] : i \in 1..Len(errors)} : e.column = column.key

\* validateCell has returned a type error followed by the errors of the
\* first and the third rule of three
C24_Witness ==
    /\ call.op = "validateCell"
    /\ thrown = ""
    /\ call.column = Column("c", "number", <<RPatternX, RRequired, RMinLength2>>)
    /\ call.value = Str(<<" ">>)
    /\ Len(call.errors) = 3
    /\ call.errors[1].message.text = "Expected a number value"
    /\ call.errors[2].rule = "pattern"
    /\ call.errors[3].rule = "min-length"

\* C25: on a number column with a min or max rule, validateCell either
\* compares a non-null value against the operand of the rule, which it does
\* for a value of type number, or returns a type-conformance error for it:
\* no value passes the type check and is left unchecked by the rule
C25_NumberIsComparedOrFlagged ==
    (/\ call.op = "validateCell"
     /\ thrown = ""
     /\ call.column.type = "number"
     /\ \E i \in 1..Len(call.column.validation) :
           call.column.validation[i].type \in {"min", "max"}
     /\ call.value.t # "null")
        => \/ call.value.t = "number"
           \/ \E i \in 1..Len(call.errors) :
                 call.errors[i].message.text = "Expected a number value"

\* C26: every string the parser classifies as date is accepted by the type
\* check of validateCell on a date column
C26_ParserDatesPassTheValidator ==
    (/\ call.op = "validateCell"
     /\ thrown = ""
     /\ call.column.type = "date"
     /\ call.value.t = "string"
     /\ isDateString(call.value.s))
        => \A i \in 1..Len(call.errors) :
              call.errors[i].message.text # "Expected a valid date"

\* C27: a pending read of loadFromFile is not cancelled.  reset, the loads
\* and the edits that run meanwhile leave it pending; when it settles, in
\* whatever state the store is and whichever call was made last, the store
\* goes to loading and then to the outcome for the content of that file, or
\* to the read error; so of two overlapping loadFromFile calls the read that
\* settles last decides the final state
C27_PendingReadIsNotCancelled ==
    [][/\ call'.op \notin {"loadFromFile", "fileRead", "fileReadFailed"}
            => pending' = pending
       /\ (pc = "ready" /\ call'.op = "loadFromFile") => pending' = pending
       /\ pc = "loadFromFile" => pending \subseteq pending'
       /\ \A file \in pending :
            /\ FileReadResolves(file)
                  => /\ state'.status = "loading"
                     /\ call'.text = file.text
                     /\ call'.fileName = file.name
                     /\ pending' = pending \ {file}
            /\ FileReadRejects(file)
                  => /\ state'.status = "error"
                     /\ state'.error.code = "FILE_READ_ERROR"
                     /\ pending' = pending \ {file}
       /\ (pc = "loadFromString" /\ call.op = "fileRead")
            => /\ state' = loadOutcome(call.text, call.fileName)
               /\ pending' = pending]_vars

\* the read of one file has resolved and its records are loaded while the
\* read of another file, whose loadFromFile call ran meanwhile, is pending
C27_Witness ==
    /\ pc = "ready"
    /\ call.op = "fileRead"
    /\ state.status = "loaded"
    /\ state.data.metadata.fileName = FileOk.name
    /\ pending = {FileUnreadable}

IsPrefix(xs, ys) == Len(xs) <= Len(ys) /\ SubSeq(ys, 1, Len(xs)) = xs

\* C28: the rule set of the store only grows.  No step, reset and the failed
\* and the later loads included, removes a key or a rule of
\* options.validationRules; addValidationRules appends its rules to the list
\* of the key; every successful load gives each column the rules stored for
\* its key; and addValidationRules on a store that is not loaded keeps the
\* state object and notifies nobody
C28_RulesOnlyGrow ==
    [][/\ \A k \in DOMAIN options.validationRules :
            /\ k \in DOMAIN options'.validationRules
            /\ IsPrefix(options.validationRules[k], options'.validationRules[k])
       /\ call'.op # "addValidationRules" => options' = options
       /\ \A args \in AddArgs :
            AddValidationRules(args[1], args[2])
                => /\ options'.validationRules[args[1]] =
                         (IF args[1] \in DOMAIN options.validationRules
                          THEN options.validationRules[args[1]] ELSE <<>>) \o args[2]
                   /\ state.status # "loaded"
                         => /\ state' = Old(state)
                            /\ state'.status = state.status
                            /\ seen' = NoSeen
                            /\ thrown' = ""
       /\ (pc = "loadFromString" /\ state'.status = "loaded")
            => \A i \in 1..Len(getColumns(state')) :
                  getColumns(state')[i].validation =
                      IF getColumns(state')[i].key \in DOMAIN options.validationRules
                      THEN options.validationRules[getColumns(state')[i].key]
                      ELSE <<>>]_vars

\* the second load of a store has given the columns the rule of the
\* constructor and the rule added between the loads, and the rows their errors
C28_Witness ==
    /\ pc = "ready"
    /\ call.op = "loadFromString"
    /\ state.status = "loaded"
    /\ rowIdCounter = 4
    /\ options.validationRules = [k \in {"age", "name"} |->
                                     IF k = "age" THEN <<RMin0>> ELSE <<RRequired>>]
    /\ getColumns(state)[1].validation = <<RRequired>>
    /\ getColumns(state)[2].validation = <<RMin0>>
    /\ DOMAIN getRows(state)[2].errors = {"age", "name"}

\* a subscriber of the store throws when it reads the status
SomeoneThrows(status) == NotifyThrows(subscribers, status)

\* C29: with a subscriber that throws, loadFromString on valid input does
\* not throw to its caller when it sets the loading state, it ends in the
\* loaded state without throwing, and each replacement of the state is
\* seen by every subscriber that does not throw
C29_ThrowingSubscriberChangesNothing ==
    [][/\ \A text \in {TextOk, TextBlank} :
            (/\ LoadFromString(text, "unknown")
             /\ SomeoneThrows("loading")
             /\ loadOutcome(text, "unknown").status = "loaded")
               => /\ pc' = "loadFromString"
                  /\ thrown' = ""
                  /\ \A sub \in Registered : seen'[sub] = <<"loading">>
       /\ (/\ pc = "loadFromString"
           /\ call.op = "loadFromString"
           /\ SomeoneThrows("loaded")
           /\ loadOutcome(call.text, call.fileName).status = "loaded")
             => /\ pc' = "ready"
                /\ thrown' = ""
                /\ state'.status = "loaded"
                /\ \A sub \in Registered : seen'[sub] = <<"loading", "loaded">>
       /\ (pc = "loadFromStringCatch" /\ call.op = "loadFromString")
             => /\ state'.status = "loaded"
                /\ thrown' = ""]_vars

\* C30: subscribing a callback that is registered leaves the subscribers as
\* they are, so that it is registered once; every replacement of the state
\* invokes each registered callback once and no other; and one unsubscribe
\* of a callback leaves it unregistered
C30_SubscribingTwiceRegistersOnce ==
    [][/\ \A sub \in Subs :
            /\ (Subscribe(sub) /\ sub \in Registered)
                  => /\ subscribers' = subscribers
                     /\ call'.present
            /\ Subscribe(sub) => Occurrences(sub, subscribers') = 1
            /\ Unsubscribe(sub) => Occurrences(sub, subscribers') = 0
            /\ Occurrences(sub, subscribers') <= 1
       /\ \A sub \in Subs :
            Replaced =>
                seen'[sub] = (IF pc = "ready" THEN <<>> ELSE seen[sub])
                                \o (IF Occurrences(sub, subscribers) = 1
                                    THEN <<state'.status>> ELSE <<>>)]_vars

\* a callback has been subscribed while it was registered, and the
\* subscribers hold it once
C30_Witness ==
    /\ call.op = "subscribe"
    /\ call.present
    /\ subscribers = <<"s1", "s2">>

====
